---- MODULE Spec2Model ----
(***************************************************************************)
(* Storage layer of the billing back-office (server/db-storage.ts,         *)
(* DatabaseStorage, the class the exported `storage` object extends) and   *)
(* the invoice routes that drive it.                                       *)
(*                                                                         *)
(* Units.  Money is kept in cents (numeric(10,2) columns), quantities in   *)
(* hundredths (numeric(10,2)), percentages in hundredths of a percent      *)
(* (numeric(5,2)).  A value written to a numeric(_,2) column is rounded    *)
(* to two decimals, half away from zero; the float arithmetic of the       *)
(* source is taken as exact decimal arithmetic before that rounding.       *)
(* Nullable columns and optional payload fields are sets: {} is            *)
(* NULL / absent, {v} is the value v.                                      *)
(***************************************************************************)
EXTENDS Integers, FiniteSets, Sequences, TLC

VARIABLES users, now, companyProfiles, nextProfileId, clients, nextClientId,
          invoices, nextInvoiceId, invoiceItems, nextItemId, lastOp,
          companyTerms, nextTermId,
          subscriptionPlans, taxRates, invoiceTemplates, masterTerms, masterItems,
          quotations, nextQuotationId, quotationItems, quotationTerms,
          nextQuotationTermId, quotationDocuments, nextQuotationDocumentId,
          requests, calls,
          materialUsage, nextMaterialUsageId, companyItems, nextCompanyItemId,
          memCompanyProfiles, memClients, memInvoices, memInvoiceItems, memIds,
          memCall, memError

termVars == <<companyTerms, nextTermId>>

(* The tables of the quotation side of the store (server/quotation-storage.ts). *)
(* The reference tables the seeding fills.                                 *)
seedVars == <<subscriptionPlans, taxRates, invoiceTemplates, masterTerms, masterItems>>

(* Quotations and the rows they own.                                       *)
quoteVars == <<quotations, nextQuotationId, quotationItems, quotationTerms,
               nextQuotationTermId, quotationDocuments, nextQuotationDocumentId>>

(* Requests and storage calls in flight.                                   *)
flightVars == <<requests, calls>>

(* The material usage log and the items of the companies.                 *)
catalogVars == <<materialUsage, nextMaterialUsageId, companyItems, nextCompanyItemId>>

(* The in-memory store (class MemStorage) and the call it served last.     *)
memVars == <<memCompanyProfiles, memClients, memInvoices, memInvoiceItems, memIds,
             memCall, memError>>

otherStores == <<termVars, seedVars, quoteVars, flightVars, catalogVars, memVars>>

vars == <<users, now, companyProfiles, nextProfileId, clients, nextClientId,
          invoices, nextInvoiceId, invoiceItems, nextItemId, lastOp, otherStores>>

store == <<users, companyProfiles, nextProfileId, clients, nextClientId,
           invoices, nextInvoiceId, invoiceItems, nextItemId>>

(* The tables of the invoice side of the store and the clock.              *)
invoiceStores == <<now, store>>

(* What the operations of one area leave alone.                            *)
notTerms == <<invoiceStores, seedVars, quoteVars, flightVars, catalogVars, memVars>>
notQuotes == <<now, companyProfiles, nextProfileId, clients, nextClientId,
               invoices, nextInvoiceId, invoiceItems, nextItemId, termVars, seedVars,
               flightVars, catalogVars, memVars>>
notSeeds == <<invoiceStores, termVars, quoteVars, flightVars, catalogVars, memVars>>

(* ---- bounds ---- *)
MaxProfiles == 3
MaxInvoices == 1
MaxItems == 2
MaxNow == 45
TickDays == 15
MaxQuoteUsage == 1
MaxTerms == 2
MaxQuotations == 2
MaxQuotationTerms == 1
MaxQuotationDocuments == 1
MaxRequests == 3
MaxCalls == 2
MaxMaterialUsage == 2
MaxCompanyItems == 2
MaxClients == 2

(* ---- program constants ---- *)
DefaultInvoiceQuota == 10
Unlimited == 0 - 1
ThirtyDays == 30

Users == {1, 2}

(* ---- optional values ---- *)
None == {}
Some(v) == {v}
Get(o, d) == IF o = {} THEN d ELSE CHOOSE v \in o : TRUE

(* ---- error messages ---- *)
Ok == ""
ErrProfileNotFound == "Company profile not found"
ErrProfileInUse == "Cannot delete company profile that is used in invoices"
ErrClientNotFound == "Client not found"
ErrClientInUse == "Cannot delete client that is used in invoices"
ErrForeignKey == "foreign key violation"
ErrNumericOverflow == "numeric field overflow"
ErrBundleExpired == "Your invoice bundle has expired"
ErrQuotaReached == "You have reached your invoice quota for this period"
ErrValidation == "Validation error"
ErrInvalidProfile == "Invalid company profile"
ErrInvalidClient == "Invalid client"

Done(op, id, arg, error) == [op |-> op, id |-> id, arg |-> arg, error |-> error]

(* ---- users ---- *)
NewUser ==
  [planId |-> "free", invoiceQuota |-> DefaultInvoiceQuota, invoicesUsed |-> 0,
   quotesUsed |-> 0, materialRecordsUsed |-> 0,
   subscriptionStatus |-> "active", subscriptionExpiresAt |-> None]

UpdateUserSubscription(userId, planId, quota) ==
  /\ users' = [users EXCEPT ![userId] =
                 [@ EXCEPT !.planId = planId,
                           !.invoiceQuota = quota,
                           !.invoicesUsed = 0,
                           !.subscriptionStatus = "active",
                           !.subscriptionExpiresAt =
                              IF planId = "per-invoice"
                                THEN Some(now + ThirtyDays) ELSE None]]
  /\ lastOp' = Done("updateUserSubscription", userId, Some(<<planId, quota>>), Ok)
  /\ UNCHANGED <<otherStores, now, companyProfiles, nextProfileId, clients, nextClientId,
                 invoices, nextInvoiceId, invoiceItems, nextItemId>>

IncrementInvoiceUsageNot(us, userId) == us

IncrementInvoiceUsage(us, userId) ==
  [us EXCEPT ![userId].invoicesUsed = @ + 1]

(* QuotationStorage.createQuotation calls incrementQuoteUsage, which the   *)
(* storage class it extends does not define; it is modelled from the       *)
(* contract "increments the corresponding counter on User by 1".           *)
IncrementQuoteUsage(userId) ==
  /\ users[userId].quotesUsed < MaxQuoteUsage
  /\ users' = [users EXCEPT ![userId].quotesUsed = @ + 1]
  /\ lastOp' = Done("incrementQuoteUsage", userId, None, Ok)
  /\ UNCHANGED <<otherStores, now, companyProfiles, nextProfileId, clients, nextClientId,
                 invoices, nextInvoiceId, invoiceItems, nextItemId>>

(* The clock of the server moves on.                                       *)
Tick ==
  /\ now < MaxNow
  /\ now' = now + TickDays
  /\ lastOp' = Done("tick", 0, None, Ok)
  /\ UNCHANGED <<store, otherStores>>

(* ---- company profiles ---- *)
GetCompanyProfiles(userId) ==
  {id \in DOMAIN companyProfiles : companyProfiles[id].userId = userId}

CreateIsDefaultRequestedOnly(existingProfiles, requested) ==
  Get(requested, FALSE)

CreateIsDefault(existingProfiles, requested) ==
  IF existingProfiles = {} THEN TRUE ELSE Get(requested, FALSE)

UnsetDefault(profiles, userId, except) ==
  [id \in DOMAIN profiles |->
     IF profiles[id].userId = userId /\ profiles[id].isDefault /\ id \notin except
       THEN [profiles[id] EXCEPT !.isDefault = FALSE]
       ELSE profiles[id]]

Insert(table, id, row) ==
  [k \in DOMAIN table \cup {id} |-> IF k = id THEN row ELSE table[k]]

Remove(table, ids) ==
  [k \in DOMAIN table \ ids |-> table[k]]

CreateCompanyProfile(userId, requested) ==
  /\ nextProfileId <= MaxProfiles
  /\ LET existingProfiles == GetCompanyProfiles(userId)
         isDefault == CreateIsDefault(existingProfiles, requested)
         cleared == IF isDefault THEN UnsetDefault(companyProfiles, userId, {})
                                 ELSE companyProfiles
     IN  companyProfiles' =
           Insert(cleared, nextProfileId, [userId |-> userId, isDefault |-> isDefault])
  /\ nextProfileId' = nextProfileId + 1
  /\ lastOp' = Done("createCompanyProfile", nextProfileId, requested, Ok)
  /\ UNCHANGED <<otherStores, users, now, clients, nextClientId, invoices, nextInvoiceId,
                 invoiceItems, nextItemId>>

ApplyProfilePatch(row, patch) ==
  [userId |-> Get(patch.userId, row.userId),
   isDefault |-> Get(patch.isDefault, row.isDefault)]

UpdateCompanyProfile(id, patch) ==
  /\ IF id \notin DOMAIN companyProfiles
       THEN /\ lastOp' = Done("updateCompanyProfile", 0, None, ErrProfileNotFound)
            /\ UNCHANGED companyProfiles
       ELSE LET existingProfile == companyProfiles[id]
                cleared == IF Get(patch.isDefault, FALSE)
                             THEN UnsetDefault(companyProfiles, existingProfile.userId, {id})
                             ELSE companyProfiles
            IN  /\ companyProfiles' =
                     [cleared EXCEPT ![id] = ApplyProfilePatch(cleared[id], patch)]
                /\ lastOp' = Done("updateCompanyProfile", 0, None, Ok)
  /\ UNCHANGED <<otherStores, users, now, nextProfileId, clients, nextClientId, invoices,
                 nextInvoiceId, invoiceItems, nextItemId>>

ProfileInUseNever(id) == FALSE

ProfileInUse(id) ==
  \E i \in DOMAIN invoices : invoices[i].companyProfileId = id

DeleteCompanyProfile(id) ==
  /\ IF id \notin DOMAIN companyProfiles
       THEN /\ lastOp' = Done("deleteCompanyProfile", id, None, ErrProfileNotFound)
            /\ UNCHANGED companyProfiles
       ELSE IF ProfileInUse(id)
       THEN /\ lastOp' = Done("deleteCompanyProfile", id, None, ErrProfileInUse)
            /\ UNCHANGED companyProfiles
       ELSE LET profile == companyProfiles[id]
                otherProfiles == GetCompanyProfiles(profile.userId) \ {id}
            IN  /\ IF profile.isDefault /\ otherProfiles # {}
                     THEN \E other \in otherProfiles :
                            companyProfiles' =
                              Remove([companyProfiles EXCEPT ![other].isDefault = TRUE], {id})
                     ELSE companyProfiles' = Remove(companyProfiles, {id})
                /\ lastOp' = Done("deleteCompanyProfile", id, None, Ok)
  /\ UNCHANGED <<otherStores, users, now, nextProfileId, clients, nextClientId, invoices,
                 nextInvoiceId, invoiceItems, nextItemId>>

(* ---- clients ---- *)
CreateClient(userId) ==
  /\ clients' = Insert(clients, nextClientId, [userId |-> userId])
  /\ nextClientId' = nextClientId + 1
  /\ lastOp' = Done("createClient", nextClientId, None, Ok)
  /\ UNCHANGED <<otherStores, users, now, companyProfiles, nextProfileId, invoices,
                 nextInvoiceId, invoiceItems, nextItemId>>

UpdateClient(id, patch) ==
  /\ IF id \in DOMAIN clients
       THEN clients' = [clients EXCEPT ![id].userId = Get(patch.userId, @)]
       ELSE UNCHANGED clients
  /\ lastOp' = Done("updateClient", id, None, Ok)
  /\ UNCHANGED <<otherStores, users, now, companyProfiles, nextProfileId, nextClientId,
                 invoices, nextInvoiceId, invoiceItems, nextItemId>>

ClientInUse(id) ==
  \E i \in DOMAIN invoices : invoices[i].clientId = id

DeleteClient(id) ==
  /\ IF id \notin DOMAIN clients
       THEN /\ lastOp' = Done("deleteClient", id, None, ErrClientNotFound)
            /\ UNCHANGED clients
       ELSE IF ClientInUse(id)
       THEN /\ lastOp' = Done("deleteClient", id, None, ErrClientInUse)
            /\ UNCHANGED clients
       ELSE /\ clients' = Remove(clients, {id})
            /\ lastOp' = Done("deleteClient", id, None, Ok)
  /\ UNCHANGED <<otherStores, users, now, companyProfiles, nextProfileId, nextClientId,
                 invoices, nextInvoiceId, invoiceItems, nextItemId>>

(* ---- invoices ---- *)
NewInvoice(payload) ==
  [userId |-> payload.userId,
   companyProfileId |-> payload.companyProfileId,
   clientId |-> payload.clientId,
   country |-> payload.country,
   discount |-> Some(Get(payload.discount, 0)),
   taxRate |-> payload.taxRate,
   subtotal |-> 0, tax |-> 0, total |-> 0]

(* The error the INSERT raises: a numeric field of the payload outside the *)
(* range of its numeric(10,2) column, or a foreign key without its row.    *)
CreateInvoiceError(payload) ==
  IF payload.overflow THEN ErrNumericOverflow
  ELSE IF /\ payload.userId \in DOMAIN users
          /\ payload.companyProfileId \in DOMAIN companyProfiles
          /\ payload.clientId \in DOMAIN clients
         THEN Ok
         ELSE ErrForeignKey

CreateInvoice(payload) ==
  /\ nextInvoiceId <= MaxInvoices
  /\ IF CreateInvoiceError(payload) = Ok
       THEN /\ invoices' = Insert(invoices, nextInvoiceId, NewInvoice(payload))
            /\ nextInvoiceId' = nextInvoiceId + 1
            /\ lastOp' = Done("createInvoice", nextInvoiceId, None, Ok)
       ELSE /\ lastOp' = Done("createInvoice", nextInvoiceId, None,
                              CreateInvoiceError(payload))
            /\ UNCHANGED <<invoices, nextInvoiceId>>
  /\ UNCHANGED <<otherStores, users, now, companyProfiles, nextProfileId, clients,
                 nextClientId, invoiceItems, nextItemId>>

(* The error the UPDATE raises: a foreign key of the patch without its row. *)
UpdateInvoiceError(patch) ==
  IF /\ patch.userId \subseteq DOMAIN users
     /\ patch.companyProfileId \subseteq DOMAIN companyProfiles
     /\ patch.clientId \subseteq DOMAIN clients
    THEN Ok
    ELSE ErrForeignKey

UpdateInvoice(id, patch) ==
  /\ IF id \in DOMAIN invoices /\ UpdateInvoiceError(patch) = Ok
       THEN /\ invoices' =
                 [invoices EXCEPT ![id] =
                    [@ EXCEPT !.userId = Get(patch.userId, @),
                              !.companyProfileId = Get(patch.companyProfileId, @),
                              !.clientId = Get(patch.clientId, @),
                              !.discount = IF patch.discount = None THEN @ ELSE patch.discount,
                              !.taxRate = IF patch.taxRate = None THEN @ ELSE patch.taxRate,
                              !.subtotal = Get(patch.subtotal, @),
                              !.tax = Get(patch.tax, @),
                              !.total = Get(patch.total, @)]]
            /\ lastOp' = Done("updateInvoice", id, None, Ok)
       ELSE /\ UNCHANGED invoices
            /\ lastOp' = Done("updateInvoice", id, None,
                              IF id \in DOMAIN invoices THEN UpdateInvoiceError(patch) ELSE Ok)
  /\ UNCHANGED <<otherStores, users, now, companyProfiles, nextProfileId, clients,
                 nextClientId, nextInvoiceId, invoiceItems, nextItemId>>

(* ---- the invoice quota and POST /api/invoices ---- *)
CheckInvoiceQuotaOffByOne(user, t) ==
  IF /\ user.planId = "per-invoice"
     /\ user.subscriptionExpiresAt # None
     /\ t > Get(user.subscriptionExpiresAt, 0)
    THEN ErrBundleExpired
  ELSE IF user.invoiceQuota # Unlimited /\ user.invoicesUsed > user.invoiceQuota
    THEN ErrQuotaReached
  ELSE Ok

CheckInvoiceQuota(user, t) ==
  IF /\ user.planId = "per-invoice"
     /\ user.subscriptionExpiresAt # None
     /\ t > Get(user.subscriptionExpiresAt, 0)
    THEN ErrBundleExpired
  ELSE IF user.invoiceQuota # Unlimited /\ user.invoicesUsed >= user.invoiceQuota
    THEN ErrQuotaReached
  ELSE Ok

(* body.valid stands for the outcome of handleValidation on the body.      *)
PostInvoice(userId, body) ==
  LET quota == CheckInvoiceQuota(users[userId], now)
      invoiceData == [body EXCEPT !.userId = userId]
      profileOk == /\ invoiceData.companyProfileId \in DOMAIN companyProfiles
                   /\ companyProfiles[invoiceData.companyProfileId].userId = userId
      clientOk == /\ invoiceData.clientId \in DOMAIN clients
                  /\ clients[invoiceData.clientId].userId = userId
      error == IF quota # Ok THEN quota
               ELSE IF ~body.valid THEN ErrValidation
               ELSE IF ~profileOk THEN ErrInvalidProfile
               ELSE IF ~clientOk THEN ErrInvalidClient
               ELSE CreateInvoiceError(invoiceData)
      status == IF error = Ok THEN 201 ELSE IF quota # Ok THEN 403 ELSE 400
  IN  /\ error = Ok => nextInvoiceId <= MaxInvoices
      /\ IF error = Ok
           THEN /\ invoices' = Insert(invoices, nextInvoiceId, NewInvoice(invoiceData))
                /\ nextInvoiceId' = nextInvoiceId + 1
                /\ users' = IncrementInvoiceUsage(users, userId)
           ELSE UNCHANGED <<invoices, nextInvoiceId, users>>
      /\ lastOp' = Done("postInvoice", userId, Some(status), error)
      /\ UNCHANGED <<otherStores, now, companyProfiles, nextProfileId, clients, nextClientId,
                     invoiceItems, nextItemId>>

(* ---- POST /api/invoices, one request at a time between its awaits ---- *)
(* A request is at "start" until its quota check, then "denied" (403),     *)
(* "rejected" (400) or "validated"; it inserts the invoice ("created"),    *)
(* reads the user's counter ("read", the value in usage) and writes the    *)
(* value read plus one ("done").                                           *)
Requests == 1..MaxRequests

NewRequest == [pc |-> "start", userId |-> 0, body |-> None, usage |-> 0]

NoRequests == requests = [r \in Requests |-> NewRequest]

RequestCheckQuota(r, userId, body) ==
  LET quota == CheckInvoiceQuota(users[userId], now)
      invoiceData == [body EXCEPT !.userId = userId]
      profileOk == /\ invoiceData.companyProfileId \in DOMAIN companyProfiles
                   /\ companyProfiles[invoiceData.companyProfileId].userId = userId
      clientOk == /\ invoiceData.clientId \in DOMAIN clients
                  /\ clients[invoiceData.clientId].userId = userId
      error == IF quota # Ok THEN quota
               ELSE IF ~body.valid THEN ErrValidation
               ELSE IF ~profileOk THEN ErrInvalidProfile
               ELSE IF ~clientOk THEN ErrInvalidClient
               ELSE Ok
      pc == IF quota # Ok THEN "denied" ELSE IF error # Ok THEN "rejected"
            ELSE "validated"
  IN  /\ requests[r].pc = "start"
      /\ requests' = [requests EXCEPT ![r] = [pc |-> pc, userId |-> userId,
                                              body |-> Some(invoiceData), usage |-> 0]]
      /\ lastOp' = Done("postInvoice.check", r, None, error)
      /\ UNCHANGED <<invoiceStores, termVars, seedVars, quoteVars, catalogVars, memVars, calls>>

RequestCreateInvoice(r) ==
  /\ requests[r].pc = "validated"
  /\ LET invoiceData == CHOOSE b \in requests[r].body : TRUE
         error == CreateInvoiceError(invoiceData)
     IN  /\ IF error = Ok
              THEN /\ invoices' = Insert(invoices, nextInvoiceId, NewInvoice(invoiceData))
                   /\ nextInvoiceId' = nextInvoiceId + 1
              ELSE UNCHANGED <<invoices, nextInvoiceId>>
         /\ requests' = [requests EXCEPT ![r].pc = IF error = Ok THEN "created"
                                                   ELSE "rejected"]
         /\ lastOp' = Done("postInvoice.create", r, None, error)
  /\ UNCHANGED <<users, now, companyProfiles, nextProfileId, clients, nextClientId,
                 invoiceItems, nextItemId, termVars, seedVars, quoteVars, catalogVars, memVars, calls>>

RequestReadUsage(r) ==
  /\ requests[r].pc = "created"
  /\ requests' = [requests EXCEPT ![r].pc = "read",
                                  ![r].usage = users[requests[r].userId].invoicesUsed]
  /\ lastOp' = Done("postInvoice.read", r, None, Ok)
  /\ UNCHANGED <<invoiceStores, termVars, seedVars, quoteVars, catalogVars, memVars, calls>>

RequestWriteUsage(r) ==
  /\ requests[r].pc = "read"
  /\ users' = [users EXCEPT ![requests[r].userId].invoicesUsed = requests[r].usage + 1]
  /\ requests' = [requests EXCEPT ![r].pc = "done"]
  /\ lastOp' = Done("postInvoice.write", r, None, Ok)
  /\ UNCHANGED <<now, companyProfiles, nextProfileId, clients, nextClientId, invoices,
                 nextInvoiceId, invoiceItems, nextItemId, termVars, seedVars, quoteVars, catalogVars, memVars,
                 calls>>

(* ---- storage calls in flight, one statement of a method at a time ---- *)
(* A call is "idle" until it starts; op names the method, id the row or   *)
(* the invoice it works on, item the item; flag, sum and row hold what it  *)
(* has read so far.                                                        *)
Calls == 1..MaxCalls

NewCall ==
  [op |-> "", pc |-> "idle", id |-> 0, userId |-> 0, flag |-> FALSE, sum |-> 0,
   item |-> 0, row |-> None]

NoCalls == calls = [c \in Calls |-> NewCall]

CallStep(c, step) == Done(step, c, None, Ok)

CallsAtRest == \A c \in Calls : calls[c].pc \in {"idle", "done", "failed"}

(* What a call on the profiles leaves alone.                               *)
notProfiles == <<users, now, clients, nextClientId, invoices, nextInvoiceId,
                 invoiceItems, nextItemId, termVars, seedVars, quoteVars, catalogVars, memVars, requests>>

(* createCompanyProfile: the read of the user's profiles, the UPDATE that  *)
(* clears the defaults when the new one is to be default, the INSERT.      *)
CreateProfileRead(c, userId, requested) ==
  /\ calls[c].pc = "idle"
  /\ calls' = [calls EXCEPT ![c] =
                 [NewCall EXCEPT
                    !.op = "createCompanyProfile", !.pc = "read", !.userId = userId,
                    !.flag = CreateIsDefault(GetCompanyProfiles(userId), requested)]]
  /\ lastOp' = CallStep(c, "createCompanyProfile.read")
  /\ UNCHANGED <<companyProfiles, nextProfileId, notProfiles>>

CreateProfileClear(c) ==
  /\ calls[c].op = "createCompanyProfile"
  /\ calls[c].pc = "read"
  /\ calls[c].flag
  /\ companyProfiles' = UnsetDefault(companyProfiles, calls[c].userId, {})
  /\ calls' = [calls EXCEPT ![c].pc = "cleared"]
  /\ lastOp' = CallStep(c, "createCompanyProfile.clear")
  /\ UNCHANGED <<nextProfileId, notProfiles>>

CreateProfileInsert(c) ==
  /\ calls[c].op = "createCompanyProfile"
  /\ \/ calls[c].pc = "cleared"
     \/ calls[c].pc = "read" /\ ~calls[c].flag
  /\ companyProfiles' = Insert(companyProfiles, nextProfileId,
                               [userId |-> calls[c].userId, isDefault |-> calls[c].flag])
  /\ nextProfileId' = nextProfileId + 1
  /\ calls' = [calls EXCEPT ![c].pc = "done", ![c].id = nextProfileId]
  /\ lastOp' = CallStep(c, "createCompanyProfile.insert")
  /\ UNCHANGED notProfiles

(* updateCompanyProfile(id, {isDefault}): the read of the row, the UPDATE  *)
(* that clears the other defaults of its user, the UPDATE of the row.      *)
UpdateProfileRead(c, id, isDefault) ==
  /\ calls[c].pc = "idle"
  /\ calls' = [calls EXCEPT ![c] =
                 [NewCall EXCEPT
                    !.op = "updateCompanyProfile",
                    !.pc = IF id \in DOMAIN companyProfiles THEN "read" ELSE "failed",
                    !.id = id,
                    !.userId = IF id \in DOMAIN companyProfiles
                                 THEN companyProfiles[id].userId ELSE 0,
                    !.flag = isDefault]]
  /\ lastOp' = Done("updateCompanyProfile.read", c, None,
                    IF id \in DOMAIN companyProfiles THEN Ok ELSE ErrProfileNotFound)
  /\ UNCHANGED <<companyProfiles, nextProfileId, notProfiles>>

UpdateProfileClear(c) ==
  /\ calls[c].op = "updateCompanyProfile"
  /\ calls[c].pc = "read"
  /\ calls[c].flag
  /\ companyProfiles' = UnsetDefault(companyProfiles, calls[c].userId, {calls[c].id})
  /\ calls' = [calls EXCEPT ![c].pc = "cleared"]
  /\ lastOp' = CallStep(c, "updateCompanyProfile.clear")
  /\ UNCHANGED <<nextProfileId, notProfiles>>

UpdateProfileSet(c) ==
  /\ calls[c].op = "updateCompanyProfile"
  /\ \/ calls[c].pc = "cleared"
     \/ calls[c].pc = "read" /\ ~calls[c].flag
  /\ companyProfiles' =
       IF calls[c].id \in DOMAIN companyProfiles
         THEN [companyProfiles EXCEPT ![calls[c].id].isDefault = calls[c].flag]
         ELSE companyProfiles
  /\ calls' = [calls EXCEPT ![c].pc = "done"]
  /\ lastOp' = CallStep(c, "updateCompanyProfile.set")
  /\ UNCHANGED <<nextProfileId, notProfiles>>

(* The foreign keys of invoices: a DELETE of a row that an invoice still   *)
(* references is refused by the database.                                  *)
ClientReferencedNever(id) == FALSE

ClientReferenced(id) == \E i \in DOMAIN invoices : invoices[i].clientId = id

ProfileReferenced(id) == \E i \in DOMAIN invoices : invoices[i].companyProfileId = id

(* What a call on the clients leaves alone.                                *)
notClients == <<users, now, companyProfiles, nextProfileId, nextClientId, invoices,
                nextInvoiceId, invoiceItems, nextItemId, termVars, seedVars, quoteVars, catalogVars, memVars,
                requests>>

CallFails(c, step, error) ==
  /\ calls' = [calls EXCEPT ![c].pc = "failed"]
  /\ lastOp' = Done(step, c, None, error)

(* deleteClient: the read of the row, the in-use SELECT, the DELETE.       *)
DeleteClientRead(c, id) ==
  /\ calls[c].pc = "idle"
  /\ calls' = [calls EXCEPT ![c] =
                 [NewCall EXCEPT !.op = "deleteClient", !.id = id,
                                 !.pc = IF id \in DOMAIN clients THEN "read"
                                        ELSE "failed"]]
  /\ lastOp' = Done("deleteClient.read", c, None,
                    IF id \in DOMAIN clients THEN Ok ELSE ErrClientNotFound)
  /\ UNCHANGED <<clients, notClients>>

DeleteClientCheck(c) ==
  /\ calls[c].op = "deleteClient"
  /\ calls[c].pc = "read"
  /\ IF ClientInUse(calls[c].id)
       THEN CallFails(c, "deleteClient.check", ErrClientInUse)
       ELSE /\ calls' = [calls EXCEPT ![c].pc = "checked"]
            /\ lastOp' = CallStep(c, "deleteClient.check")
  /\ UNCHANGED <<clients, notClients>>

DeleteClientDelete(c) ==
  /\ calls[c].op = "deleteClient"
  /\ calls[c].pc = "checked"
  /\ IF ClientReferenced(calls[c].id)
       THEN /\ CallFails(c, "deleteClient.delete", ErrForeignKey)
            /\ UNCHANGED clients
       ELSE /\ clients' = Remove(clients, {calls[c].id})
            /\ calls' = [calls EXCEPT ![c].pc = "done"]
            /\ lastOp' = CallStep(c, "deleteClient.delete")
  /\ UNCHANGED notClients

(* deleteCompanyProfile: the read of the row, the in-use SELECT, for a     *)
(* default profile the SELECT of another profile of the user and the       *)
(* UPDATE that makes it default, the DELETE.                               *)
DeleteProfileRead(c, id) ==
  /\ calls[c].pc = "idle"
  /\ calls' = [calls EXCEPT ![c] =
                 IF id \in DOMAIN companyProfiles
                   THEN [NewCall EXCEPT !.op = "deleteCompanyProfile", !.id = id,
                                        !.pc = "read",
                                        !.userId = companyProfiles[id].userId,
                                        !.flag = companyProfiles[id].isDefault]
                   ELSE [NewCall EXCEPT !.op = "deleteCompanyProfile", !.id = id,
                                        !.pc = "failed"]]
  /\ lastOp' = Done("deleteCompanyProfile.read", c, None,
                    IF id \in DOMAIN companyProfiles THEN Ok ELSE ErrProfileNotFound)
  /\ UNCHANGED <<companyProfiles, nextProfileId, notProfiles>>

DeleteProfileCheck(c) ==
  /\ calls[c].op = "deleteCompanyProfile"
  /\ calls[c].pc = "read"
  /\ IF ProfileInUse(calls[c].id)
       THEN CallFails(c, "deleteCompanyProfile.check", ErrProfileInUse)
       ELSE /\ calls' = [calls EXCEPT ![c].pc = IF calls[c].flag THEN "checked"
                                                ELSE "promoted"]
            /\ lastOp' = CallStep(c, "deleteCompanyProfile.check")
  /\ UNCHANGED <<companyProfiles, nextProfileId, notProfiles>>

(* sum holds the id of the profile picked for promotion, 0 for none.       *)
DeleteProfilePick(c) ==
  /\ calls[c].op = "deleteCompanyProfile"
  /\ calls[c].pc = "checked"
  /\ LET otherProfiles == GetCompanyProfiles(calls[c].userId) \ {calls[c].id}
     IN  IF otherProfiles = {}
           THEN calls' = [calls EXCEPT ![c].pc = "promoted"]
           ELSE \E other \in otherProfiles :
                  calls' = [calls EXCEPT ![c].pc = "picked", ![c].sum = other]
  /\ lastOp' = CallStep(c, "deleteCompanyProfile.pick")
  /\ UNCHANGED <<companyProfiles, nextProfileId, notProfiles>>

DeleteProfilePromote(c) ==
  /\ calls[c].op = "deleteCompanyProfile"
  /\ calls[c].pc = "picked"
  /\ companyProfiles' =
       IF calls[c].sum \in DOMAIN companyProfiles
         THEN [companyProfiles EXCEPT ![calls[c].sum].isDefault = TRUE]
         ELSE companyProfiles
  /\ calls' = [calls EXCEPT ![c].pc = "promoted"]
  /\ lastOp' = CallStep(c, "deleteCompanyProfile.promote")
  /\ UNCHANGED <<nextProfileId, notProfiles>>

DeleteProfileDelete(c) ==
  /\ calls[c].op = "deleteCompanyProfile"
  /\ calls[c].pc = "promoted"
  /\ IF ProfileReferenced(calls[c].id)
       THEN /\ CallFails(c, "deleteCompanyProfile.delete", ErrForeignKey)
            /\ UNCHANGED companyProfiles
       ELSE /\ companyProfiles' = Remove(companyProfiles, {calls[c].id})
            /\ calls' = [calls EXCEPT ![c].pc = "done"]
            /\ lastOp' = CallStep(c, "deleteCompanyProfile.delete")
  /\ UNCHANGED <<nextProfileId, notProfiles>>

(* createInvoice is the one INSERT, checked against the foreign keys.      *)
CreateInvoiceCall(c, payload) ==
  /\ calls[c].pc = "idle"
  /\ LET error == CreateInvoiceError(payload)
     IN  /\ IF error = Ok
              THEN /\ invoices' = Insert(invoices, nextInvoiceId, NewInvoice(payload))
                   /\ nextInvoiceId' = nextInvoiceId + 1
              ELSE UNCHANGED <<invoices, nextInvoiceId>>
         /\ calls' = [calls EXCEPT ![c] =
                        [NewCall EXCEPT !.op = "createInvoice",
                                        !.pc = IF error = Ok THEN "done" ELSE "failed",
                                        !.id = IF error = Ok THEN nextInvoiceId ELSE 0]]
         /\ lastOp' = Done("createInvoice.insert", c, None, error)
  /\ UNCHANGED <<users, now, companyProfiles, nextProfileId, clients, nextClientId,
                 invoiceItems, nextItemId, termVars, seedVars, quoteVars, catalogVars, memVars, requests>>

(* ---- invoice items and totals ---- *)
ErrItemNotFound == "Invoice item not found"

RoundDiv(n, d) ==
  IF n >= 0 THEN (n + d \div 2) \div d ELSE 0 - ((d \div 2 - n) \div d)

ItemAmountTruncated(quantity, unitPrice, discount) ==
  (unitPrice * quantity * 10000 - unitPrice * quantity * discount) \div 1000000

ItemAmount(quantity, unitPrice, discount) ==
  LET gross == unitPrice * quantity
      discountAmount == gross * discount
  IN  RoundDiv(gross * 10000 - discountAmount, 1000000)

GetInvoiceItems(items, invoiceId) ==
  {i \in DOMAIN items : items[i].invoiceId = invoiceId}

RECURSIVE SumAmounts(_, _)
SumAmounts(items, ids) ==
  IF ids = {} THEN 0
  ELSE LET i == CHOOSE x \in ids : TRUE
       IN  items[i].amount + SumAmounts(items, ids \ {i})

RecalculateInvoiceTotals(invs, items, invoiceId) ==
  IF invoiceId \notin DOMAIN invs THEN invs
  ELSE LET invoice == invs[invoiceId]
           subtotal == SumAmounts(items, GetInvoiceItems(items, invoiceId))
           discountAmount == Get(invoice.discount, 0)
           taxableAmount == subtotal - discountAmount
           taxRate == Get(invoice.taxRate, 0)
           taxAmount == taxableAmount * taxRate
           total == taxableAmount * 10000 + taxAmount
       IN  [invs EXCEPT ![invoiceId] =
              [@ EXCEPT !.subtotal = subtotal,
                        !.tax = RoundDiv(taxAmount, 10000),
                        !.total = RoundDiv(total, 10000)]]

CreateInvoiceItem(payload) ==
  /\ nextItemId <= MaxItems
  /\ IF payload.invoiceId \in DOMAIN invoices
       THEN LET amount == ItemAmount(payload.quantity, payload.unitPrice,
                                     Get(payload.discount, 0))
                newItem == [invoiceId |-> payload.invoiceId,
                            quantity |-> payload.quantity,
                            unitPrice |-> payload.unitPrice,
                            discount |-> Some(Get(payload.discount, 0)),
                            amount |-> amount]
                items == Insert(invoiceItems, nextItemId, newItem)
            IN  /\ invoiceItems' = items
                /\ nextItemId' = nextItemId + 1
                /\ invoices' = RecalculateInvoiceTotals(invoices, items, payload.invoiceId)
                /\ lastOp' = Done("createInvoiceItem", payload.invoiceId, None, Ok)
       ELSE /\ lastOp' = Done("createInvoiceItem", payload.invoiceId, None, ErrForeignKey)
            /\ UNCHANGED <<invoiceItems, nextItemId, invoices>>
  /\ UNCHANGED <<otherStores, users, now, companyProfiles, nextProfileId, clients,
                 nextClientId, nextInvoiceId>>

UpdateInvoiceItem(id, patch) ==
  /\ IF id \notin DOMAIN invoiceItems
       THEN /\ lastOp' = Done("updateInvoiceItem", 0, None, ErrItemNotFound)
            /\ UNCHANGED <<invoiceItems, invoices>>
       ELSE LET existingItem == invoiceItems[id]
                quantity == Get(patch.quantity, existingItem.quantity)
                unitPrice == Get(patch.unitPrice, existingItem.unitPrice)
                discount == Get(patch.discount, Get(existingItem.discount, 0))
                amount == IF patch.quantity # None \/ patch.unitPrice # None
                             \/ patch.discount # None
                            THEN ItemAmount(quantity, unitPrice, discount)
                            ELSE existingItem.amount
                updatedItem == [invoiceId |-> Get(patch.invoiceId, existingItem.invoiceId),
                                quantity |-> quantity,
                                unitPrice |-> unitPrice,
                                discount |-> IF patch.discount = None
                                               THEN existingItem.discount
                                               ELSE patch.discount,
                                amount |-> amount]
                items == [invoiceItems EXCEPT ![id] = updatedItem]
            IN  IF updatedItem.invoiceId \in DOMAIN invoices
                  THEN /\ invoiceItems' = items
                       /\ invoices' = RecalculateInvoiceTotals(invoices, items,
                                                               existingItem.invoiceId)
                       /\ lastOp' = Done("updateInvoiceItem", existingItem.invoiceId, None, Ok)
                  ELSE /\ lastOp' = Done("updateInvoiceItem", existingItem.invoiceId,
                                         None, ErrForeignKey)
                       /\ UNCHANGED <<invoiceItems, invoices>>
  /\ UNCHANGED <<otherStores, users, now, companyProfiles, nextProfileId, clients,
                 nextClientId, nextInvoiceId, nextItemId>>

DeleteInvoiceItem(id) ==
  /\ IF id \notin DOMAIN invoiceItems
       THEN /\ lastOp' = Done("deleteInvoiceItem", 0, None, ErrItemNotFound)
            /\ UNCHANGED <<invoiceItems, invoices>>
       ELSE LET item == invoiceItems[id]
                items == Remove(invoiceItems, {id})
            IN  /\ invoiceItems' = items
                /\ invoices' = RecalculateInvoiceTotals(invoices, items, item.invoiceId)
                /\ lastOp' = Done("deleteInvoiceItem", item.invoiceId, None, Ok)
  /\ UNCHANGED <<otherStores, users, now, companyProfiles, nextProfileId, clients,
                 nextClientId, nextInvoiceId, nextItemId>>

(* ---- deleting an invoice ---- *)
ErrInvoiceNotFound == "Invoice not found"

(* ---- PUT and DELETE /api/invoices/:invoiceId/items/:itemId ---- *)
ErrAccessDenied == "Access denied"

(* The answer of a route that stops before it calls the storage.           *)
Refused(route, userId, status, error) ==
  /\ lastOp' = Done(route, userId, Some(status), error)
  /\ UNCHANGED <<invoiceStores, otherStores>>

(* The invoice of the URL is looked up and its owner compared with the     *)
(* user of the session; the item is then updated by its own id.            *)
PutInvoiceItem(userId, invoiceId, itemId, body) ==
  IF invoiceId \notin DOMAIN invoices
    THEN Refused("putInvoiceItem", userId, 404, ErrInvoiceNotFound)
  ELSE IF invoices[invoiceId].userId # userId
    THEN Refused("putInvoiceItem", userId, 403, ErrAccessDenied)
  ELSE UpdateInvoiceItem(itemId, body)

DeleteInvoiceItemRoute(userId, invoiceId, itemId) ==
  IF invoiceId \notin DOMAIN invoices
    THEN Refused("deleteInvoiceItem", userId, 404, ErrInvoiceNotFound)
  ELSE IF invoices[invoiceId].userId # userId
    THEN Refused("deleteInvoiceItem", userId, 403, ErrAccessDenied)
  ELSE DeleteInvoiceItem(itemId)

DeleteInvoice(id) ==
  /\ IF id \notin DOMAIN invoices
       THEN /\ lastOp' = Done("deleteInvoice", id, None, ErrInvoiceNotFound)
            /\ UNCHANGED <<invoices, invoiceItems>>
       ELSE /\ invoiceItems' = Remove(invoiceItems, GetInvoiceItems(invoiceItems, id))
            /\ invoices' = Remove(invoices, {id})
            /\ lastOp' = Done("deleteInvoice", id, None, Ok)
  /\ UNCHANGED <<otherStores, users, now, companyProfiles, nextProfileId, clients,
                 nextClientId, nextInvoiceId, nextItemId>>

(* ---- quotations ---- *)
ErrQuotationItemNotFound == "Quotation item not found"
ErrQuotationNotFound == "Quotation not found"
ErrUpdatedFields == "ReferenceError: updatedFields is not defined"

NewQuotation(quotation) ==
  [userId |-> quotation.userId,
   discount |-> quotation.discount,
   taxRate |-> quotation.taxRate,
   subtotal |-> 0, tax |-> 0, total |-> 0]

(* The insert, then incrementQuoteUsage; that method is not defined by the *)
(* storage class and is taken from its contract (quotesUsed + 1).          *)
CreateQuotation(quotation) ==
  /\ nextQuotationId <= MaxQuotations
  /\ quotations' = Insert(quotations, nextQuotationId, NewQuotation(quotation))
  /\ nextQuotationId' = nextQuotationId + 1
  /\ users' = [users EXCEPT ![quotation.userId].quotesUsed = @ + 1]
  /\ lastOp' = Done("createQuotation", nextQuotationId, None, Ok)
  /\ UNCHANGED <<quotationItems, quotationTerms, nextQuotationTermId,
                 quotationDocuments, nextQuotationDocumentId, notQuotes>>

UpdateQuotation(id, quotation) ==
  /\ IF id \in DOMAIN quotations
       THEN quotations' =
              [quotations EXCEPT ![id] =
                 [@ EXCEPT !.discount = IF quotation.discount = None THEN @
                                        ELSE quotation.discount,
                           !.taxRate = IF quotation.taxRate = None THEN @
                                       ELSE quotation.taxRate]]
       ELSE UNCHANGED quotations
  /\ lastOp' = Done("updateQuotation", id, None, Ok)
  /\ UNCHANGED <<users, nextQuotationId, quotationItems, quotationTerms,
                 nextQuotationTermId, quotationDocuments, nextQuotationDocumentId,
                 notQuotes>>

GetQuotationItems(items, quotationId) ==
  {i \in DOMAIN items : items[i].quotationId = quotationId}

OwnedRows(rows, quotationId) ==
  {i \in DOMAIN rows : rows[i].quotationId = quotationId}

DeleteQuotationKeepsDocuments(id) ==
  /\ quotationItems' = Remove(quotationItems, OwnedRows(quotationItems, id))
  /\ quotationTerms' = Remove(quotationTerms, OwnedRows(quotationTerms, id))
  /\ quotations' = Remove(quotations, {id})
  /\ lastOp' = Done("deleteQuotation", id, None, Ok)
  /\ UNCHANGED <<users, quotationDocuments, nextQuotationId, nextQuotationTermId,
                 nextQuotationDocumentId, notQuotes>>

DeleteQuotation(id) ==
  /\ quotationItems' = Remove(quotationItems, OwnedRows(quotationItems, id))
  /\ quotationTerms' = Remove(quotationTerms, OwnedRows(quotationTerms, id))
  /\ quotationDocuments' = Remove(quotationDocuments, OwnedRows(quotationDocuments, id))
  /\ quotations' = Remove(quotations, {id})
  /\ lastOp' = Done("deleteQuotation", id, None, Ok)
  /\ UNCHANGED <<users, nextQuotationId, nextQuotationTermId,
                 nextQuotationDocumentId, notQuotes>>

(* subtotal * (1 - discount/100), tax on that at taxRate percent; the      *)
(* stored columns keep two decimals.                                       *)
(* a * r / 10^8 to the nearest unit, halves up, for 0 <= a and 0 <= r,     *)
(* taken in two halves so that no intermediate product leaves 32 bits.     *)
ScaleRound(a, r) ==
  LET high == (a \div 10000) * r
      low == ((a % 10000) * r) \div 10000
  IN  (high + low + 5000) \div 10000

RecalculateQuotationTotals(quotes, items, quotationId) ==
  IF quotationId \notin DOMAIN quotes THEN quotes
  ELSE LET subtotal == SumAmounts(items, GetQuotationItems(items, quotationId))
           quotation == quotes[quotationId]
           discount == Get(quotation.discount, 0)
           discountedSubtotal == subtotal * (10000 - discount)
           taxRate == Get(quotation.taxRate, 0)
       IN  [quotes EXCEPT ![quotationId] =
              [@ EXCEPT !.subtotal = subtotal,
                        !.tax = ScaleRound(discountedSubtotal, taxRate),
                        !.total = ScaleRound(discountedSubtotal, 10000 + taxRate)]]

RecalculateQuotationError(quotes, quotationId) ==
  IF quotationId \in DOMAIN quotes THEN Ok ELSE ErrQuotationNotFound

(* The method assigns to updatedFields, a name that its scope does not     *)
(* declare, before it writes anything: every call throws.                  *)
CreateQuotationItem(item) ==
  /\ lastOp' = Done("createQuotationItem", item.quotationId, None, ErrUpdatedFields)
  /\ UNCHANGED <<users, quoteVars, notQuotes>>

UpdateQuotationItem(id, item) ==
  /\ IF id \notin DOMAIN quotationItems
       THEN /\ lastOp' = Done("updateQuotationItem", 0, None, ErrQuotationItemNotFound)
            /\ UNCHANGED <<quotationItems, quotations>>
       ELSE LET existingItem == quotationItems[id]
                quantity == Get(item.quantity, existingItem.quantity)
                unitPrice == Get(item.unitPrice, existingItem.unitPrice)
                discount == Get(item.discount, Get(existingItem.discount, 0))
                amount == IF item.quantity # None \/ item.unitPrice # None
                             \/ item.discount # None
                            THEN ItemAmount(quantity, unitPrice, discount)
                            ELSE existingItem.amount
                updatedItem == [quotationId |-> existingItem.quotationId,
                                quantity |-> quantity,
                                unitPrice |-> unitPrice,
                                discount |-> IF item.discount = None
                                               THEN existingItem.discount
                                               ELSE item.discount,
                                amount |-> amount]
                items == [quotationItems EXCEPT ![id] = updatedItem]
            IN  /\ quotationItems' = items
                /\ quotations' = RecalculateQuotationTotals(quotations, items,
                                                            existingItem.quotationId)
                /\ lastOp' = Done("updateQuotationItem", existingItem.quotationId, None,
                                  RecalculateQuotationError(quotations,
                                                            existingItem.quotationId))
  /\ UNCHANGED <<users, nextQuotationId, quotationTerms, nextQuotationTermId,
                 quotationDocuments, nextQuotationDocumentId, notQuotes>>

DeleteQuotationItem(id) ==
  /\ IF id \notin DOMAIN quotationItems
       THEN /\ lastOp' = Done("deleteQuotationItem", 0, None, ErrQuotationItemNotFound)
            /\ UNCHANGED <<quotationItems, quotations>>
       ELSE LET quotationId == quotationItems[id].quotationId
                items == Remove(quotationItems, {id})
            IN  /\ quotationItems' = items
                /\ quotations' = RecalculateQuotationTotals(quotations, items, quotationId)
                /\ lastOp' = Done("deleteQuotationItem", quotationId, None,
                                  RecalculateQuotationError(quotations, quotationId))
  /\ UNCHANGED <<users, nextQuotationId, quotationTerms, nextQuotationTermId,
                 quotationDocuments, nextQuotationDocumentId, notQuotes>>

CreateQuotationDocument(doc) ==
  /\ nextQuotationDocumentId <= MaxQuotationDocuments
  /\ quotationDocuments' = Insert(quotationDocuments, nextQuotationDocumentId,
                                  [quotationId |-> doc.quotationId])
  /\ nextQuotationDocumentId' = nextQuotationDocumentId + 1
  /\ lastOp' = Done("createQuotationDocument", doc.quotationId, None, Ok)
  /\ UNCHANGED <<users, quotations, nextQuotationId, quotationItems, quotationTerms,
                 nextQuotationTermId, notQuotes>>

CreateQuotationTerm(term) ==
  /\ nextQuotationTermId <= MaxQuotationTerms
  /\ quotationTerms' = Insert(quotationTerms, nextQuotationTermId,
                              [quotationId |-> term.quotationId])
  /\ nextQuotationTermId' = nextQuotationTermId + 1
  /\ lastOp' = Done("createQuotationTerm", term.quotationId, None, Ok)
  /\ UNCHANGED <<users, quotations, nextQuotationId, quotationItems,
                 quotationDocuments, nextQuotationDocumentId, notQuotes>>

(* ---- item calls in flight ---- *)
(* What a call on the items and totals leaves alone.                       *)
notItems == <<users, now, companyProfiles, nextProfileId, clients, nextClientId,
              nextInvoiceId, termVars, seedVars, quoteVars, catalogVars, memVars, requests>>

(* createInvoiceItem: the INSERT, then the recalculation.                  *)
CreateItemInsert(c, payload) ==
  /\ calls[c].pc = "idle"
  /\ IF payload.invoiceId \in DOMAIN invoices
       THEN /\ invoiceItems' =
                 Insert(invoiceItems, nextItemId,
                        [invoiceId |-> payload.invoiceId,
                         quantity |-> payload.quantity,
                         unitPrice |-> payload.unitPrice,
                         discount |-> Some(Get(payload.discount, 0)),
                         amount |-> ItemAmount(payload.quantity, payload.unitPrice,
                                               Get(payload.discount, 0))])
            /\ nextItemId' = nextItemId + 1
            /\ calls' = [calls EXCEPT ![c] =
                           [NewCall EXCEPT !.op = "createInvoiceItem", !.pc = "written",
                                           !.id = payload.invoiceId,
                                           !.item = nextItemId]]
            /\ lastOp' = CallStep(c, "createInvoiceItem.insert")
       ELSE /\ calls' = [calls EXCEPT ![c] =
                           [NewCall EXCEPT !.op = "createInvoiceItem", !.pc = "failed",
                                           !.id = payload.invoiceId]]
            /\ lastOp' = Done("createInvoiceItem.insert", c, None, ErrForeignKey)
            /\ UNCHANGED <<invoiceItems, nextItemId>>
  /\ UNCHANGED <<invoices, notItems>>

(* updateInvoiceItem(id, {quantity}): the read of the item, the UPDATE     *)
(* with the amount computed from the row read, then the recalculation.     *)
UpdateItemRead(c, id, quantity) ==
  /\ calls[c].pc = "idle"
  /\ IF id \in DOMAIN invoiceItems
       THEN LET existingItem == invoiceItems[id]
                amount == ItemAmount(quantity, existingItem.unitPrice,
                                     Get(existingItem.discount, 0))
            IN  /\ calls' = [calls EXCEPT ![c] =
                               [NewCall EXCEPT
                                  !.op = "updateInvoiceItem", !.pc = "read",
                                  !.id = existingItem.invoiceId, !.item = id,
                                  !.row = Some([quantity |-> quantity,
                                                amount |-> amount])]]
                /\ lastOp' = CallStep(c, "updateInvoiceItem.read")
       ELSE /\ calls' = [calls EXCEPT ![c] =
                           [NewCall EXCEPT !.op = "updateInvoiceItem", !.pc = "failed",
                                           !.item = id]]
            /\ lastOp' = Done("updateInvoiceItem.read", c, None, ErrItemNotFound)
  /\ UNCHANGED <<invoiceItems, nextItemId, invoices, notItems>>

UpdateItemWrite(c) ==
  /\ calls[c].op = "updateInvoiceItem"
  /\ calls[c].pc = "read"
  /\ LET set == CHOOSE r \in calls[c].row : TRUE
     IN  invoiceItems' =
           IF calls[c].item \in DOMAIN invoiceItems
             THEN [invoiceItems EXCEPT ![calls[c].item].quantity = set.quantity,
                                       ![calls[c].item].amount = set.amount]
             ELSE invoiceItems
  /\ calls' = [calls EXCEPT ![c].pc = "written"]
  /\ lastOp' = CallStep(c, "updateInvoiceItem.update")
  /\ UNCHANGED <<nextItemId, invoices, notItems>>

(* deleteInvoiceItem: the read of the item, the DELETE, the recalculation. *)
DeleteItemRead(c, id) ==
  /\ calls[c].pc = "idle"
  /\ IF id \in DOMAIN invoiceItems
       THEN /\ calls' = [calls EXCEPT ![c] =
                           [NewCall EXCEPT !.op = "deleteInvoiceItem", !.pc = "read",
                                           !.id = invoiceItems[id].invoiceId,
                                           !.item = id]]
            /\ lastOp' = CallStep(c, "deleteInvoiceItem.read")
       ELSE /\ calls' = [calls EXCEPT ![c] =
                           [NewCall EXCEPT !.op = "deleteInvoiceItem", !.pc = "failed",
                                           !.item = id]]
            /\ lastOp' = Done("deleteInvoiceItem.read", c, None, ErrItemNotFound)
  /\ UNCHANGED <<invoiceItems, nextItemId, invoices, notItems>>

DeleteItemDelete(c) ==
  /\ calls[c].op = "deleteInvoiceItem"
  /\ calls[c].pc = "read"
  /\ invoiceItems' = Remove(invoiceItems, {calls[c].item})
  /\ calls' = [calls EXCEPT ![c].pc = "written"]
  /\ lastOp' = CallStep(c, "deleteInvoiceItem.delete")
  /\ UNCHANGED <<nextItemId, invoices, notItems>>

(* recalculateInvoiceTotals: the read of the invoice, the read of its      *)
(* items, the UPDATE of the three totals computed from what was read.      *)
ItemOpNames == {"createInvoiceItem", "updateInvoiceItem", "deleteInvoiceItem"}

RecalculateReadInvoice(c) ==
  /\ calls[c].op \in ItemOpNames
  /\ calls[c].pc = "written"
  /\ calls' = IF calls[c].id \in DOMAIN invoices
                THEN [calls EXCEPT ![c].pc = "invoice",
                                   ![c].row = Some(invoices[calls[c].id])]
                ELSE [calls EXCEPT ![c].pc = "done"]
  /\ lastOp' = CallStep(c, "recalculateInvoiceTotals.invoice")
  /\ UNCHANGED <<invoiceItems, nextItemId, invoices, notItems>>

RecalculateReadItems(c) ==
  /\ calls[c].op \in ItemOpNames
  /\ calls[c].pc = "invoice"
  /\ calls' = [calls EXCEPT
                 ![c].pc = "summed",
                 ![c].sum = SumAmounts(invoiceItems,
                                       GetInvoiceItems(invoiceItems, calls[c].id))]
  /\ lastOp' = CallStep(c, "recalculateInvoiceTotals.items")
  /\ UNCHANGED <<invoiceItems, nextItemId, invoices, notItems>>

RecalculateWrite(c) ==
  /\ calls[c].op \in ItemOpNames
  /\ calls[c].pc = "summed"
  /\ LET invoice == CHOOSE r \in calls[c].row : TRUE
         subtotal == calls[c].sum
         taxableAmount == subtotal - Get(invoice.discount, 0)
         taxAmount == taxableAmount * Get(invoice.taxRate, 0)
         total == taxableAmount * 10000 + taxAmount
     IN  invoices' =
           IF calls[c].id \in DOMAIN invoices
             THEN [invoices EXCEPT ![calls[c].id].subtotal = subtotal,
                                   ![calls[c].id].tax = RoundDiv(taxAmount, 10000),
                                   ![calls[c].id].total = RoundDiv(total, 10000)]
             ELSE invoices
  /\ calls' = [calls EXCEPT ![c].pc = "done"]
  /\ lastOp' = CallStep(c, "recalculateInvoiceTotals.update")
  /\ UNCHANGED <<invoiceItems, nextItemId, notItems>>

(* ---- material usage and company items ---- *)
ErrInsertFailed == "insert failed"
ErrItemFields == "Missing required fields for company item"

NoMaterials ==
  /\ materialUsage = <<>>
  /\ nextMaterialUsageId = 1
  /\ companyItems = <<>>
  /\ nextCompanyItemId = 1

(* incrementMaterialUsage is called on the storage class but defined       *)
(* neither by it nor by the class it extends; it is modelled from the      *)
(* contract "increments the corresponding counter on User by 1".           *)
IncrementMaterialUsage(us, userId) ==
  [us EXCEPT ![userId].materialRecordsUsed = @ + 1]

(* The counter is raised, then the usage row is inserted; fails says that  *)
(* the database refuses the INSERT.                                        *)
TrackedUsers(usage) == IncrementMaterialUsage(users, usage.userId)

TrackedUsage(usage) ==
  Insert(materialUsage, nextMaterialUsageId,
         [userId |-> usage.userId, masterItemId |-> usage.masterItemId,
          quotationId |-> usage.quotationId])

TrackMaterialUsage(usage, fails) ==
  /\ users[usage.userId].materialRecordsUsed < MaxMaterialUsage
  /\ users' = TrackedUsers(usage)
  /\ IF fails
       THEN /\ lastOp' = Done("trackMaterialUsage", usage.userId, None, ErrInsertFailed)
            /\ UNCHANGED <<materialUsage, nextMaterialUsageId>>
       ELSE /\ materialUsage' = TrackedUsage(usage)
            /\ nextMaterialUsageId' = nextMaterialUsageId + 1
            /\ lastOp' = Done("trackMaterialUsage", usage.userId, None, Ok)
  /\ UNCHANGED <<companyItems, nextCompanyItemId, now, companyProfiles, nextProfileId,
                 clients, nextClientId, invoices, nextInvoiceId, invoiceItems, nextItemId,
                 termVars, seedVars, quoteVars, flightVars, memVars>>

(* item.valid stands for the presence of the required fields; usageFails   *)
(* and insertFails say that the database refuses the respective INSERT.    *)
CreateCompanyItem(item, usageFails, insertFails) ==
  /\ users[item.userId].materialRecordsUsed < MaxMaterialUsage
  /\ LET tracks == item.valid /\ item.masterItemId # None
         usage == [userId |-> item.userId, masterItemId |-> item.masterItemId,
                   quotationId |-> None]
         tracked == tracks /\ ~usageFails
         error == IF ~item.valid THEN ErrItemFields
                  ELSE IF tracks /\ usageFails THEN ErrInsertFailed
                  ELSE IF insertFails THEN ErrInsertFailed
                  ELSE Ok
     IN  /\ error = Ok => nextCompanyItemId <= MaxCompanyItems
         /\ users' = IF tracks THEN TrackedUsers(usage) ELSE users
         /\ IF tracked
              THEN /\ materialUsage' = TrackedUsage(usage)
                   /\ nextMaterialUsageId' = nextMaterialUsageId + 1
              ELSE UNCHANGED <<materialUsage, nextMaterialUsageId>>
         /\ IF error = Ok
              THEN /\ companyItems' = Insert(companyItems, nextCompanyItemId,
                                             [userId |-> item.userId,
                                              masterItemId |-> item.masterItemId])
                   /\ nextCompanyItemId' = nextCompanyItemId + 1
              ELSE UNCHANGED <<companyItems, nextCompanyItemId>>
         /\ lastOp' = Done("createCompanyItem", item.userId, None, error)
  /\ UNCHANGED <<now, companyProfiles, nextProfileId, clients, nextClientId, invoices,
                 nextInvoiceId, invoiceItems, nextItemId, termVars, seedVars, quoteVars,
                 flightVars, memVars>>

(* ---- reference data ---- *)
DefaultPlans == {"free", "monthly", "yearly", "per-invoice"}

TaxRow(countryCode, rate) == [countryCode |-> countryCode, rate |-> rate, isDefault |-> TRUE]

DefaultTaxRates ==
  <<TaxRow("GB", 2000), TaxRow("US", 0), TaxRow("DE", 1900), TaxRow("FR", 2000),
    TaxRow("JP", 1000), TaxRow("CA", 500), TaxRow("AU", 1000), TaxRow("IT", 2200),
    TaxRow("ES", 2100), TaxRow("NL", 2100)>>

DefaultTemplates ==
  {"classic", "modern-blue", "executive", "minimal", "dynamic", "geometric"}

(* The rate of a default row of the country, absent when there is none.    *)
GetDefaultTaxRate(rates, countryCode) ==
  LET ids == {id \in DOMAIN rates :
                rates[id].countryCode = countryCode /\ rates[id].isDefault}
  IN  IF ids = {} THEN None ELSE Some(rates[CHOOSE id \in ids : TRUE].rate)

(* Master terms by category and title, master items by code.              *)
DefaultMasterTerms ==
  {<<"Payment", "Net 30">>, <<"Payment", "Net 15">>, <<"Payment", "50% Advance">>,
   <<"Delivery", "Standard Delivery">>, <<"Warranty", "Standard Warranty">>,
   <<"Refund", "No Refund Policy">>}

DefaultMasterItems == {"MAT-001", "MAT-002", "MAT-003", "SRV-001", "SRV-002", "SRV-003"}

(* INSERT ... ON CONFLICT DO NOTHING against the unique key of the table:  *)
(* a row whose key is there already is skipped.                            *)
InsertOnConflictDoNothing(table, rows) == table \cup rows

(* Each of the three tables is filled only when it holds no row at all.    *)
SeedDefaultData ==
  /\ subscriptionPlans' = IF subscriptionPlans = {} THEN DefaultPlans
                          ELSE subscriptionPlans
  /\ taxRates' = IF DOMAIN taxRates = {} THEN DefaultTaxRates ELSE taxRates
  /\ invoiceTemplates' = IF invoiceTemplates = {} THEN DefaultTemplates
                         ELSE invoiceTemplates
  /\ lastOp' = Done("seedDefaultData", 0, None, Ok)
  /\ UNCHANGED <<masterTerms, masterItems, notSeeds>>

SeedQuotationData ==
  /\ masterTerms' = InsertOnConflictDoNothing(masterTerms, DefaultMasterTerms)
  /\ masterItems' = InsertOnConflictDoNothing(masterItems, DefaultMasterItems)
  /\ lastOp' = Done("seedQuotationData", 0, None, Ok)
  /\ UNCHANGED <<subscriptionPlans, taxRates, invoiceTemplates, notSeeds>>

DeleteMasterTerm(term) ==
  /\ masterTerms' = masterTerms \ {term}
  /\ lastOp' = Done("deleteMasterTerm", 0, None, Ok)
  /\ UNCHANGED <<subscriptionPlans, taxRates, invoiceTemplates, masterItems,
                 notSeeds>>

DeleteMasterItem(code) ==
  /\ masterItems' = masterItems \ {code}
  /\ lastOp' = Done("deleteMasterItem", 0, None, Ok)
  /\ UNCHANGED <<subscriptionPlans, taxRates, invoiceTemplates, masterTerms,
                 notSeeds>>

(* ---- company terms ---- *)
ErrTermFields == "Missing required fields for company term"

ClearDefaultCompanyTerm(terms, userId, category) ==
  [id \in DOMAIN terms |->
     IF terms[id].userId = userId /\ terms[id].category = category
        /\ terms[id].isDefault
       THEN [terms[id] EXCEPT !.isDefault = FALSE]
       ELSE terms[id]]

CreateCompanyTerm(term) ==
  /\ nextTermId <= MaxTerms
  /\ IF term.category = None
       THEN /\ lastOp' = Done("createCompanyTerm", 0, None, ErrTermFields)
            /\ UNCHANGED termVars
       ELSE LET category == Get(term.category, "")
                cleared == IF Get(term.isDefault, FALSE)
                             THEN ClearDefaultCompanyTerm(companyTerms, term.userId, category)
                             ELSE companyTerms
                createdTerm == [userId |-> term.userId, category |-> category,
                                isDefault |-> Get(term.isDefault, FALSE)]
            IN  /\ companyTerms' = Insert(cleared, nextTermId, createdTerm)
                /\ nextTermId' = nextTermId + 1
                /\ lastOp' = Done("createCompanyTerm", nextTermId, None, Ok)
  /\ UNCHANGED notTerms

UpdateCompanyTerm(id, term) ==
  /\ LET cleared == IF Get(term.isDefault, FALSE) /\ id \in DOMAIN companyTerms
                      THEN ClearDefaultCompanyTerm(companyTerms, companyTerms[id].userId,
                                                   companyTerms[id].category)
                      ELSE companyTerms
     IN  IF id \in DOMAIN companyTerms
           THEN companyTerms' =
                  [cleared EXCEPT ![id] =
                     [userId |-> Get(term.userId, cleared[id].userId),
                      category |-> Get(term.category, cleared[id].category),
                      isDefault |-> Get(term.isDefault, cleared[id].isDefault)]]
           ELSE UNCHANGED companyTerms
  /\ lastOp' = Done("updateCompanyTerm", id, None, Ok)
  /\ UNCHANGED <<nextTermId, notTerms>>

DeleteCompanyTerm(id) ==
  /\ companyTerms' = Remove(companyTerms, {id})
  /\ lastOp' = Done("deleteCompanyTerm", id, None, Ok)
  /\ UNCHANGED <<nextTermId, notTerms>>

(* ---- initial states ---- *)
(* The reference tables after the seeding at process start.                *)
Seeded ==
  /\ subscriptionPlans = DefaultPlans
  /\ taxRates = DefaultTaxRates
  /\ invoiceTemplates = DefaultTemplates
  /\ masterTerms = DefaultMasterTerms
  /\ masterItems = DefaultMasterItems

NoQuotations ==
  /\ quotations = <<>>
  /\ nextQuotationId = 1
  /\ quotationItems = <<>>
  /\ quotationTerms = <<>>
  /\ nextQuotationTermId = 1
  /\ quotationDocuments = <<>>
  /\ nextQuotationDocumentId = 1

(* The users whose session sends the requests.                             *)
SessionUsers == {1}

(* ---- the routes of invoices, clients and company profiles ---- *)
(* What a route finds when it loads the row of the URL and compares its    *)
(* owner with the user of the session.                                     *)
OwnerCheck(table, id, userId, notFound) ==
  IF id \notin DOMAIN table THEN notFound
  ELSE IF table[id].userId # userId THEN ErrAccessDenied
  ELSE Ok

RefusedStatus(error) == IF error = ErrAccessDenied THEN 403 ELSE 404

PutInvoice(userId, id, body) ==
  LET error == OwnerCheck(invoices, id, userId, ErrInvoiceNotFound)
  IN  IF error # Ok THEN Refused("putInvoice", userId, RefusedStatus(error), error)
      ELSE UpdateInvoice(id, body)

DeleteInvoiceRoute(userId, id) ==
  LET error == OwnerCheck(invoices, id, userId, ErrInvoiceNotFound)
  IN  IF error # Ok THEN Refused("deleteInvoice", userId, RefusedStatus(error), error)
      ELSE DeleteInvoice(id)

(* The body of a POST passes the validation, which puts the user of the    *)
(* session into it.                                                        *)
PostCompanyProfile(userId, requested) == CreateCompanyProfile(userId, requested)

PutCompanyProfile(userId, id, body) ==
  LET error == OwnerCheck(companyProfiles, id, userId, ErrProfileNotFound)
  IN  IF error # Ok THEN Refused("putCompanyProfile", userId, RefusedStatus(error), error)
      ELSE UpdateCompanyProfile(id, body)

DeleteCompanyProfileRoute(userId, id) ==
  LET error == OwnerCheck(companyProfiles, id, userId, ErrProfileNotFound)
  IN  IF error # Ok THEN Refused("deleteCompanyProfile", userId, RefusedStatus(error), error)
      ELSE DeleteCompanyProfile(id)

PostClient(userId) == CreateClient(userId)

PutClient(userId, id, body) ==
  LET error == OwnerCheck(clients, id, userId, ErrClientNotFound)
  IN  IF error # Ok THEN Refused("putClient", userId, RefusedStatus(error), error)
      ELSE UpdateClient(id, body)

DeleteClientRoute(userId, id) ==
  LET error == OwnerCheck(clients, id, userId, ErrClientNotFound)
  IN  IF error # Ok THEN Refused("deleteClient", userId, RefusedStatus(error), error)
      ELSE DeleteClient(id)

(* ---- the in-memory store (class MemStorage) ---- *)
ErrMemProfileNotFound == "Company profile with ID not found"
ErrMemClientNotFound == "Client with ID not found"
ErrMemInvoiceNotFound == "Invoice with ID not found"

(* A MemStorage after construction: empty maps, every id counter at 1.     *)
NoMem ==
  /\ memCompanyProfiles = <<>>
  /\ memClients = <<>>
  /\ memInvoices = <<>>
  /\ memInvoiceItems = <<>>
  /\ memIds = [profile |-> 1, client |-> 1, invoice |-> 1, item |-> 1]
  /\ memCall = [op |-> "", a |-> 0, b |-> 0, flag |-> None]
  /\ memError = Ok

notMem == <<invoiceStores, termVars, seedVars, quoteVars, flightVars, catalogVars>>

(* The call the in-memory store has served and how it ended.               *)
MemServed(op, a, b, flag, error) ==
  /\ memCall' = [op |-> op, a |-> a, b |-> b, flag |-> flag]
  /\ memError' = error
  /\ lastOp' = Done(op, a, flag, error)

MemGetCompanyProfiles(userId) ==
  {id \in DOMAIN memCompanyProfiles : memCompanyProfiles[id].userId = userId}

MemCreateCompanyProfile(userId, requested) ==
  /\ LET id == memIds.profile
         existingProfiles == MemGetCompanyProfiles(userId)
         isDefault == CreateIsDefault(existingProfiles, requested)
         cleared == IF isDefault THEN UnsetDefault(memCompanyProfiles, userId, {})
                                 ELSE memCompanyProfiles
     IN  /\ memCompanyProfiles' =
              Insert(cleared, id, [userId |-> userId, isDefault |-> isDefault])
         /\ memIds' = [memIds EXCEPT !.profile = id + 1]
  /\ MemServed("mem.createCompanyProfile", userId, 0, requested, Ok)
  /\ UNCHANGED <<notMem, memClients, memInvoices, memInvoiceItems>>

MemUpdateCompanyProfile(id, patch) ==
  /\ IF id \notin DOMAIN memCompanyProfiles
       THEN /\ MemServed("mem.updateCompanyProfile", id, 0, patch.isDefault,
                         ErrMemProfileNotFound)
            /\ UNCHANGED memCompanyProfiles
       ELSE LET existingProfile == memCompanyProfiles[id]
                cleared == IF Get(patch.isDefault, FALSE)
                             THEN UnsetDefault(memCompanyProfiles, existingProfile.userId, {id})
                             ELSE memCompanyProfiles
            IN  /\ memCompanyProfiles' =
                     [cleared EXCEPT ![id] = ApplyProfilePatch(existingProfile, patch)]
                /\ MemServed("mem.updateCompanyProfile", id, 0, patch.isDefault, Ok)
  /\ UNCHANGED <<notMem, memClients, memInvoices, memInvoiceItems, memIds>>

(* The first of a non-empty set of ids in the insertion order of the Map,  *)
(* which is the order of the ids.                                          *)
FirstInserted(ids) == CHOOSE id \in ids : \A other \in ids : id <= other

MemDeleteCompanyProfile(id) ==
  /\ IF id \notin DOMAIN memCompanyProfiles
       THEN /\ MemServed("mem.deleteCompanyProfile", id, 0, None, ErrMemProfileNotFound)
            /\ UNCHANGED memCompanyProfiles
       ELSE IF \E i \in DOMAIN memInvoices : memInvoices[i].companyProfileId = id
       THEN /\ MemServed("mem.deleteCompanyProfile", id, 0, None, ErrProfileInUse)
            /\ UNCHANGED memCompanyProfiles
       ELSE LET profile == memCompanyProfiles[id]
                otherProfiles == MemGetCompanyProfiles(profile.userId) \ {id}
                promoted == IF profile.isDefault /\ otherProfiles # {}
                              THEN [memCompanyProfiles EXCEPT
                                      ![FirstInserted(otherProfiles)].isDefault = TRUE]
                              ELSE memCompanyProfiles
            IN  /\ memCompanyProfiles' = Remove(promoted, {id})
                /\ MemServed("mem.deleteCompanyProfile", id, 0, None, Ok)
  /\ UNCHANGED <<notMem, memClients, memInvoices, memInvoiceItems, memIds>>

MemCreateClient(userId) ==
  /\ memClients' = Insert(memClients, memIds.client, [userId |-> userId])
  /\ memIds' = [memIds EXCEPT !.client = @ + 1]
  /\ MemServed("mem.createClient", userId, 0, None, Ok)
  /\ UNCHANGED <<notMem, memCompanyProfiles, memInvoices, memInvoiceItems>>

MemDeleteClient(id) ==
  /\ IF id \notin DOMAIN memClients
       THEN /\ MemServed("mem.deleteClient", id, 0, None, ErrMemClientNotFound)
            /\ UNCHANGED memClients
       ELSE IF \E i \in DOMAIN memInvoices : memInvoices[i].clientId = id
       THEN /\ MemServed("mem.deleteClient", id, 0, None, ErrClientInUse)
            /\ UNCHANGED memClients
       ELSE /\ memClients' = Remove(memClients, {id})
            /\ MemServed("mem.deleteClient", id, 0, None, Ok)
  /\ UNCHANGED <<notMem, memCompanyProfiles, memInvoices, memInvoiceItems, memIds>>

(* The invoice is stored whatever its companyProfileId and clientId are.   *)
MemCreateInvoice(payload) ==
  /\ memIds.invoice <= MaxInvoices
  /\ memInvoices' =
       Insert(memInvoices, memIds.invoice,
              [NewInvoice(payload) EXCEPT !.discount = payload.discount])
  /\ memIds' = [memIds EXCEPT !.invoice = @ + 1]
  /\ MemServed("mem.createInvoice", payload.companyProfileId, payload.clientId, None, Ok)
  /\ UNCHANGED <<notMem, memCompanyProfiles, memClients, memInvoiceItems>>

(* The invoices with the totals of one of them computed from its items and *)
(* the default tax rate of its country.                                    *)
MemRecalculateInvoiceTotals(invs, items, invoiceId) ==
  LET invoice == invs[invoiceId]
      subtotal == SumAmounts(items, GetInvoiceItems(items, invoiceId))
      discountValue == Get(invoice.discount, 0)
      taxRateValue == Get(GetDefaultTaxRate(DefaultTaxRates, invoice.country), 0)
      taxableAmount == subtotal - discountValue
      taxAmount == taxableAmount * taxRateValue
      total == taxableAmount * 10000 + taxAmount
  IN  [invs EXCEPT ![invoiceId] =
         [@ EXCEPT !.subtotal = subtotal,
                   !.tax = RoundDiv(taxAmount, 10000),
                   !.taxRate = Some(taxRateValue),
                   !.total = RoundDiv(total, 10000)]]

(* The item is put into the map before the totals are recalculated, and    *)
(* the recalculation throws when the invoice is not in the map.            *)
MemCreateInvoiceItem(item) ==
  /\ memIds.item <= MaxItems
  /\ LET amount == ItemAmount(item.quantity, item.unitPrice, Get(item.discount, 0))
         newItem == [invoiceId |-> item.invoiceId,
                     quantity |-> item.quantity,
                     unitPrice |-> item.unitPrice,
                     discount |-> item.discount,
                     amount |-> amount]
         items == Insert(memInvoiceItems, memIds.item, newItem)
     IN  /\ memInvoiceItems' = items
         /\ memIds' = [memIds EXCEPT !.item = @ + 1]
         /\ IF item.invoiceId \in DOMAIN memInvoices
              THEN /\ memInvoices' =
                        MemRecalculateInvoiceTotals(memInvoices, items, item.invoiceId)
                   /\ MemServed("mem.createInvoiceItem", item.invoiceId, 0, None, Ok)
              ELSE /\ UNCHANGED memInvoices
                   /\ MemServed("mem.createInvoiceItem", item.invoiceId, 0, None,
                                ErrMemInvoiceNotFound)
  /\ UNCHANGED <<notMem, memCompanyProfiles, memClients>>

OtherStoresEmpty ==
  /\ companyTerms = <<>>
  /\ nextTermId = 1
  /\ Seeded
  /\ NoQuotations
  /\ NoRequests
  /\ NoCalls
  /\ NoMaterials
  /\ NoMem

(* Registered users, empty tables.                                         *)
Init ==
  /\ users = [u \in Users |-> NewUser]
  /\ now = 0
  /\ companyProfiles = <<>>
  /\ nextProfileId = 1
  /\ clients = <<>>
  /\ nextClientId = 1
  /\ invoices = <<>>
  /\ nextInvoiceId = 1
  /\ invoiceItems = <<>>
  /\ nextItemId = 1
  /\ lastOp = Done("init", 0, None, Ok)
  /\ OtherStoresEmpty

(* The store after user 1 has created a client.                            *)
InitProfiles ==
  /\ users = [u \in Users |-> NewUser]
  /\ now = 0
  /\ companyProfiles = <<>>
  /\ nextProfileId = 1
  /\ clients = Insert(<<>>, 1, [userId |-> 1])
  /\ nextClientId = 2
  /\ invoices = <<>>
  /\ nextInvoiceId = 1
  /\ invoiceItems = <<>>
  /\ nextItemId = 1
  /\ lastOp = Done("createClient", 1, None, Ok)
  /\ OtherStoresEmpty

(* ---- company profiles, clients and the invoices that reference them ---- *)
ProfileFlags == {None, Some(TRUE), Some(FALSE)}

ProfilePatches ==
  [userId : {None} \cup {Some(u) : u \in Users}, isDefault : ProfileFlags]

PlainInvoice(userId, companyProfileId, clientId) ==
  [userId |-> userId, companyProfileId |-> companyProfileId, clientId |-> clientId,
   country |-> "GB", discount |-> None, taxRate |-> None, tax |-> None,
   overflow |-> FALSE]

NextProfiles ==
  \/ \E u \in Users, requested \in ProfileFlags : CreateCompanyProfile(u, requested)
  \/ \E id \in 1..MaxProfiles, patch \in ProfilePatches : UpdateCompanyProfile(id, patch)
  \/ \E id \in 1..MaxProfiles : DeleteCompanyProfile(id)
  \/ \E id \in DOMAIN clients : DeleteClient(id)
  \/ \E p \in 1..MaxProfiles, c \in DOMAIN clients :
       CreateInvoice(PlainInvoice(1, p, c))

SpecProfiles == InitProfiles /\ [][NextProfiles]_vars

(* ---- invoices, their items and their totals ---- *)
(* The store after user 1 has created a company profile and a client and   *)
(* user 2 a company profile.                                               *)
InitSetup ==
  /\ users = [u \in Users |-> NewUser]
  /\ now = 0
  /\ companyProfiles = Insert(Insert(<<>>, 1, [userId |-> 1, isDefault |-> TRUE]),
                              2, [userId |-> 2, isDefault |-> TRUE])
  /\ nextProfileId = 3
  /\ clients = Insert(<<>>, 1, [userId |-> 1])
  /\ nextClientId = 2
  /\ invoices = <<>>
  /\ nextInvoiceId = 1
  /\ invoiceItems = <<>>
  /\ nextItemId = 1
  /\ lastOp = Done("createClient", 1, None, Ok)
  /\ OtherStoresEmpty

InvoicePayloads ==
  { [PlainInvoice(1, 1, 1) EXCEPT !.tax = Some(777)],
    [PlainInvoice(1, 1, 1) EXCEPT !.taxRate = Some(2000)] }

NoInvoicePatch ==
  [userId |-> None, companyProfileId |-> None, clientId |-> None,
   discount |-> None, taxRate |-> None, subtotal |-> None, tax |-> None, total |-> None]

InvoicePatches ==
  { [NoInvoicePatch EXCEPT !.discount = Some(200)],
    [NoInvoicePatch EXCEPT !.taxRate = Some(1000)],
    [NoInvoicePatch EXCEPT !.tax = Some(777), !.total = Some(99900)] }

NoItemPatch ==
  [invoiceId |-> None, quantity |-> None, unitPrice |-> None, discount |-> None]

NextInvoices ==
  \/ \E payload \in InvoicePayloads : CreateInvoice(payload)
  \/ \E id \in 1..MaxInvoices, patch \in InvoicePatches : UpdateInvoice(id, patch)
  \/ \E i \in 1..MaxInvoices :
       CreateInvoiceItem([invoiceId |-> i, quantity |-> 100, unitPrice |-> 500,
                          discount |-> Some(1000)])
  \/ \E id \in 1..MaxItems : UpdateInvoiceItem(id, [NoItemPatch EXCEPT !.quantity = Some(200)])

SpecInvoices == InitSetup /\ [][NextInvoices]_vars

(* ---- the items of two invoices ---- *)
(* The store after user 1 has also created two invoices, the first with a  *)
(* discount of 1.00 and a tax rate of 20%, the second with neither.        *)
InitItems ==
  /\ users = [u \in Users |-> NewUser]
  /\ now = 0
  /\ companyProfiles = Insert(Insert(<<>>, 1, [userId |-> 1, isDefault |-> TRUE]),
                              2, [userId |-> 2, isDefault |-> TRUE])
  /\ nextProfileId = 3
  /\ clients = Insert(<<>>, 1, [userId |-> 1])
  /\ nextClientId = 2
  /\ invoices =
       Insert(Insert(<<>>, 1, NewInvoice([PlainInvoice(1, 1, 1) EXCEPT
                                            !.discount = Some(100),
                                            !.taxRate = Some(2000)])),
              2, NewInvoice(PlainInvoice(1, 1, 1)))
  /\ nextInvoiceId = 3
  /\ invoiceItems = <<>>
  /\ nextItemId = 1
  /\ lastOp = Done("createInvoice", 2, None, Ok)
  /\ OtherStoresEmpty

(* Item payloads name an invoice that exists or the next, absent, id.      *)
InvoiceRefs == DOMAIN invoices \cup {nextInvoiceId}

ItemPayloads ==
  { [invoiceId |-> i, quantity |-> 100, unitPrice |-> 500, discount |-> Some(1000)]
      : i \in InvoiceRefs }
  \cup
  { [invoiceId |-> i, quantity |-> 150, unitPrice |-> 5, discount |-> None]
      : i \in InvoiceRefs }

ItemPatches ==
  { [NoItemPatch EXCEPT !.quantity = Some(200)],
    [NoItemPatch EXCEPT !.discount = Some(5000)],
    [NoItemPatch EXCEPT !.discount = Some(0)] }
  \cup { [NoItemPatch EXCEPT !.invoiceId = Some(i)] : i \in InvoiceRefs }

NextItems ==
  \/ \E payload \in ItemPayloads : CreateInvoiceItem(payload)
  \/ \E id \in 1..MaxItems, patch \in ItemPatches : UpdateInvoiceItem(id, patch)
  \/ \E id \in 1..MaxItems : DeleteInvoiceItem(id)

SpecItems == InitItems /\ [][NextItems]_vars

(* ---- quotations: the store holds two quotations of user 1, the first  ---- *)
(* ---- with two items, totals as the last recalculation left them        ---- *)
StoredQuotationItems ==
  Insert(Insert(<<>>, 1, [quotationId |-> 1, quantity |-> 100, unitPrice |-> 500,
                          discount |-> None, amount |-> 500]),
         2, [quotationId |-> 1, quantity |-> 200, unitPrice |-> 40,
             discount |-> None, amount |-> 80])

QuotationPayloads ==
  { [userId |-> 1, discount |-> d, taxRate |-> t]
      : d \in {None, Some(100)}, t \in {None, Some(2000)} }

InitQuotations ==
  /\ users = [u \in Users |-> IF u = 1 THEN [NewUser EXCEPT !.quotesUsed = 1]
                              ELSE NewUser]
  /\ now = 0
  /\ companyProfiles = Insert(Insert(<<>>, 1, [userId |-> 1, isDefault |-> TRUE]),
                              2, [userId |-> 2, isDefault |-> TRUE])
  /\ nextProfileId = 3
  /\ clients = Insert(<<>>, 1, [userId |-> 1])
  /\ nextClientId = 2
  /\ invoices = <<>>
  /\ nextInvoiceId = 1
  /\ invoiceItems = <<>>
  /\ nextItemId = 1
  /\ companyTerms = <<>>
  /\ nextTermId = 1
  /\ Seeded
  /\ quotationItems = StoredQuotationItems
  /\ quotations =
       RecalculateQuotationTotals(
         Insert(<<>>, 1, NewQuotation([userId |-> 1, discount |-> Some(100),
                                       taxRate |-> Some(2000)])),
         StoredQuotationItems, 1)
  /\ nextQuotationId = 2
  /\ quotationTerms = <<>>
  /\ nextQuotationTermId = 1
  /\ quotationDocuments = <<>>
  /\ nextQuotationDocumentId = 1
  /\ NoRequests
  /\ NoCalls
  /\ NoMaterials
  /\ NoMem
  /\ lastOp = Done("createQuotation", 1, None, Ok)

QuotationRefs == 1..MaxQuotations

QuotationItemIds == DOMAIN StoredQuotationItems

NoQuotationItemPatch == [quantity |-> None, unitPrice |-> None, discount |-> None]

QuotationItemPatches ==
  { [NoQuotationItemPatch EXCEPT !.quantity = Some(300)],
    [NoQuotationItemPatch EXCEPT !.unitPrice = Some(250)],
    [NoQuotationItemPatch EXCEPT !.discount = Some(5000)] }

QuotationPatches ==
  { [discount |-> Some(50), taxRate |-> None],
    [discount |-> None, taxRate |-> Some(1000)] }

NextQuotations ==
  \/ \E quotation \in QuotationPayloads : CreateQuotation(quotation)
  \/ \E id \in QuotationRefs, quotation \in QuotationPatches : UpdateQuotation(id, quotation)
  \/ \E q \in QuotationRefs :
       CreateQuotationItem([quotationId |-> q, quantity |-> 100, unitPrice |-> 500,
                            discount |-> None])
  \/ \E id \in QuotationItemIds, item \in QuotationItemPatches : UpdateQuotationItem(id, item)
  \/ \E id \in QuotationItemIds : DeleteQuotationItem(id)

SpecQuotations == InitQuotations /\ [][NextQuotations]_vars

(* ---- deleting documents: two invoices and two quotations of user 1,    ---- *)
(* ---- each quotation with one item already in the store                 ---- *)
CascadeQuotationItems ==
  Insert(Insert(<<>>, 1, [quotationId |-> 1, quantity |-> 100, unitPrice |-> 500,
                          discount |-> None, amount |-> 500]),
         2, [quotationId |-> 2, quantity |-> 200, unitPrice |-> 40,
             discount |-> None, amount |-> 80])

CascadeQuotations ==
  LET plain == NewQuotation([userId |-> 1, discount |-> None, taxRate |-> None])
      both == Insert(Insert(<<>>, 1, plain), 2, plain)
  IN  RecalculateQuotationTotals(
        RecalculateQuotationTotals(both, CascadeQuotationItems, 1),
        CascadeQuotationItems, 2)

InitCascade ==
  /\ users = [u \in Users |-> IF u = 1 THEN [NewUser EXCEPT !.quotesUsed = 2]
                              ELSE NewUser]
  /\ now = 0
  /\ companyProfiles = Insert(Insert(<<>>, 1, [userId |-> 1, isDefault |-> TRUE]),
                              2, [userId |-> 2, isDefault |-> TRUE])
  /\ nextProfileId = 3
  /\ clients = Insert(<<>>, 1, [userId |-> 1])
  /\ nextClientId = 2
  /\ invoices = Insert(Insert(<<>>, 1, NewInvoice(PlainInvoice(1, 1, 1))),
                       2, NewInvoice(PlainInvoice(1, 1, 1)))
  /\ nextInvoiceId = 3
  /\ invoiceItems = <<>>
  /\ nextItemId = 1
  /\ companyTerms = <<>>
  /\ nextTermId = 1
  /\ Seeded
  /\ quotations = CascadeQuotations
  /\ nextQuotationId = 3
  /\ quotationItems = CascadeQuotationItems
  /\ quotationTerms = <<>>
  /\ nextQuotationTermId = 1
  /\ quotationDocuments = <<>>
  /\ nextQuotationDocumentId = 1
  /\ NoRequests
  /\ NoCalls
  /\ NoMaterials
  /\ NoMem
  /\ lastOp = Done("createQuotation", 2, None, Ok)

CascadeRefs == {1, 2}

NextCascade ==
  \/ \E i \in CascadeRefs :
       CreateInvoiceItem([invoiceId |-> i, quantity |-> 100, unitPrice |-> 500,
                          discount |-> None])
  \/ \E id \in 1..MaxItems, i \in CascadeRefs :
       UpdateInvoiceItem(id, [NoItemPatch EXCEPT !.invoiceId = Some(i)])
  \/ \E id \in CascadeRefs : DeleteInvoice(id)
  \/ \E q \in CascadeRefs : CreateQuotationTerm([quotationId |-> q])
  \/ \E q \in CascadeRefs : CreateQuotationDocument([quotationId |-> q])
  \/ \E id \in CascadeRefs : DeleteQuotation(id)

SpecCascade == InitCascade /\ [][NextCascade]_vars

(* ---- seeding: the reference tables as a process start may find them,   ---- *)
(* ---- each empty, holding one of its default rows, or complete          ---- *)
InitSeed ==
  /\ users = [u \in Users |-> NewUser]
  /\ now = 0
  /\ companyProfiles = <<>>
  /\ nextProfileId = 1
  /\ clients = <<>>
  /\ nextClientId = 1
  /\ invoices = <<>>
  /\ nextInvoiceId = 1
  /\ invoiceItems = <<>>
  /\ nextItemId = 1
  /\ companyTerms = <<>>
  /\ nextTermId = 1
  /\ NoQuotations
  /\ subscriptionPlans \in {{}, {"free"}, DefaultPlans}
  /\ taxRates \in {<<>>, <<TaxRow("GB", 2000)>>, DefaultTaxRates}
  /\ invoiceTemplates \in {{}, {"classic"}, DefaultTemplates}
  /\ masterTerms \in {{}, {<<"Payment", "Net 30">>}, DefaultMasterTerms}
  /\ masterItems \in {{}, {"MAT-001"}, DefaultMasterItems}
  /\ NoRequests
  /\ NoCalls
  /\ NoMaterials
  /\ NoMem
  /\ lastOp = Done("start", 0, None, Ok)

NextSeed ==
  \/ SeedDefaultData
  \/ SeedQuotationData
  \/ DeleteMasterTerm(<<"Payment", "Net 15">>)
  \/ DeleteMasterItem("SRV-003")

SpecSeed == InitSeed /\ [][NextSeed]_vars

(* ---- item discounts inside and outside 0..100 percent ---- *)
ItemDiscounts == {0, 10000, 15000, 0 - 1000}

DiscountPayloads ==
  { [invoiceId |-> i, quantity |-> 100, unitPrice |-> 500, discount |-> Some(d)]
      : i \in DOMAIN invoices, d \in ItemDiscounts }

DiscountPatches == { [NoItemPatch EXCEPT !.discount = Some(d)] : d \in ItemDiscounts }

NextDiscounts ==
  \/ \E payload \in DiscountPayloads : CreateInvoiceItem(payload)
  \/ \E id \in 1..MaxItems, patch \in DiscountPatches : UpdateInvoiceItem(id, patch)
  \/ \E id \in 1..MaxItems : DeleteInvoiceItem(id)

SpecDiscounts == InitItems /\ [][NextDiscounts]_vars

(* ---- the item routes, called by one user ---- *)
(* The store after each user has created a client and an invoice with one  *)
(* item.                                                                   *)
OwnersItem(invoiceId) ==
  [invoiceId |-> invoiceId, quantity |-> 100, unitPrice |-> 500, discount |-> Some(0),
   amount |-> ItemAmount(100, 500, 0)]

OwnersItems == Insert(Insert(<<>>, 1, OwnersItem(1)), 2, OwnersItem(2))

InitOwners ==
  /\ users = [u \in Users |-> NewUser]
  /\ now = 0
  /\ companyProfiles = Insert(Insert(<<>>, 1, [userId |-> 1, isDefault |-> TRUE]),
                              2, [userId |-> 2, isDefault |-> TRUE])
  /\ nextProfileId = 3
  /\ clients = Insert(Insert(<<>>, 1, [userId |-> 1]), 2, [userId |-> 2])
  /\ nextClientId = 3
  /\ invoices =
       RecalculateInvoiceTotals(
         RecalculateInvoiceTotals(
           Insert(Insert(<<>>, 1, NewInvoice(PlainInvoice(1, 1, 1))),
                  2, NewInvoice(PlainInvoice(2, 2, 2))),
           OwnersItems, 1),
         OwnersItems, 2)
  /\ nextInvoiceId = 3
  /\ invoiceItems = OwnersItems
  /\ nextItemId = 3
  /\ lastOp = Done("createInvoiceItem", 2, None, Ok)
  /\ OtherStoresEmpty

NextItemRoutes ==
  \/ \E u \in SessionUsers, invoiceId \in InvoiceRefs, itemId \in DOMAIN OwnersItems,
        body \in ItemPatches :
       PutInvoiceItem(u, invoiceId, itemId, body)
  \/ \E u \in SessionUsers, invoiceId \in InvoiceRefs, itemId \in DOMAIN OwnersItems :
       DeleteInvoiceItemRoute(u, invoiceId, itemId)

SpecItemRoutes == InitOwners /\ [][NextItemRoutes]_vars

(* ---- items of the in-memory store ---- *)
(* Item payloads for an invoice of the map or for an id that is not in it. *)
MemItemPayloads ==
  { [invoiceId |-> i, quantity |-> 100, unitPrice |-> 500, discount |-> Some(1000)]
      : i \in 1..(MaxInvoices + 1) }
  \cup
  { [invoiceId |-> i, quantity |-> q, unitPrice |-> 5, discount |-> None]
      : i \in 1..(MaxInvoices + 1), q \in {150, 200} }

NextMemItems ==
  \/ \E payload \in InvoicePayloads \cup {PlainInvoice(1, 1, 1)} : MemCreateInvoice(payload)
  \/ \E item \in MemItemPayloads : MemCreateInvoiceItem(item)

SpecMemItems == Init /\ [][NextMemItems]_vars

(* ---- the two stores served the same calls ---- *)
(* Each call is served by the in-memory store first and by the relational  *)
(* store next, with the same arguments.                                    *)
MemOps ==
  {"mem.createCompanyProfile", "mem.updateCompanyProfile", "mem.deleteCompanyProfile",
   "mem.createClient", "mem.deleteClient", "mem.createInvoice"}

(* The relational store has served every call the in-memory store has.     *)
BothServed == lastOp.op \notin MemOps

(* The in-memory store has served this call and the relational has not.    *)
Replays(op, a, b, flag) ==
  /\ lastOp.op = op
  /\ memCall = [op |-> op, a |-> a, b |-> b, flag |-> flag]

FlagPatch(flag) == [userId |-> None, isDefault |-> flag]

NextEquivalence ==
  \/ \E u \in SessionUsers, requested \in ProfileFlags :
       BothServed /\ memIds.profile <= MaxProfiles /\ MemCreateCompanyProfile(u, requested)
  \/ \E u \in SessionUsers, requested \in ProfileFlags :
       Replays("mem.createCompanyProfile", u, 0, requested) /\ CreateCompanyProfile(u, requested)
  \/ \E id \in 1..MaxProfiles, flag \in ProfileFlags :
       BothServed /\ MemUpdateCompanyProfile(id, FlagPatch(flag))
  \/ \E id \in 1..MaxProfiles, flag \in ProfileFlags :
       Replays("mem.updateCompanyProfile", id, 0, flag) /\ UpdateCompanyProfile(id, FlagPatch(flag))
  \/ \E id \in 1..MaxProfiles :
       BothServed /\ MemDeleteCompanyProfile(id)
  \/ \E id \in 1..MaxProfiles :
       Replays("mem.deleteCompanyProfile", id, 0, None) /\ DeleteCompanyProfile(id)
  \/ \E u \in SessionUsers :
       BothServed /\ memIds.client <= MaxClients /\ MemCreateClient(u)
  \/ \E u \in SessionUsers :
       Replays("mem.createClient", u, 0, None) /\ CreateClient(u)
  \/ \E id \in 1..MaxClients :
       BothServed /\ MemDeleteClient(id)
  \/ \E id \in 1..MaxClients :
       Replays("mem.deleteClient", id, 0, None) /\ DeleteClient(id)
  \/ \E p \in 1..MaxProfiles, c \in 1..MaxClients :
       BothServed /\ MemCreateInvoice(PlainInvoice(1, p, c))
  \/ \E p \in 1..MaxProfiles, c \in 1..MaxClients :
       Replays("mem.createInvoice", p, c, None) /\ CreateInvoice(PlainInvoice(1, p, c))

SpecEquivalence == Init /\ [][NextEquivalence]_vars

(* ---- subscriptions, the quota and the usage counters ---- *)
Plans == {"free", "per-invoice"}

Quotas == {1, Unlimited}

GoodBody ==
  [valid |-> TRUE, userId |-> 2, companyProfileId |-> 1, clientId |-> 1,
   country |-> "GB", discount |-> None, taxRate |-> None, tax |-> None,
   overflow |-> FALSE]

InvoiceBodies ==
  { GoodBody,
    [GoodBody EXCEPT !.valid = FALSE],
    [GoodBody EXCEPT !.companyProfileId = 2],
    [GoodBody EXCEPT !.clientId = 2],
    [GoodBody EXCEPT !.overflow = TRUE] }

NextQuota ==
  \/ \E body \in InvoiceBodies : PostInvoice(1, body)
  \/ \E planId \in Plans, quota \in Quotas : UpdateUserSubscription(1, planId, quota)
  \/ IncrementQuoteUsage(1)
  \/ Tick

SpecQuota == InitSetup /\ [][NextQuota]_vars

(* ---- the routes of invoices, clients and company profiles, one request at a time ---- *)
(* Bodies of PUT /api/invoices/:id: the references and the owner.          *)
RouteInvoicePatches ==
  { [NoInvoicePatch EXCEPT !.companyProfileId = Some(p)] : p \in 1..MaxProfiles }
  \cup { [NoInvoicePatch EXCEPT !.clientId = Some(c)] : c \in 1..MaxClients }
  \cup { [NoInvoicePatch EXCEPT !.userId = Some(u)] : u \in Users }
  \cup { [NoInvoicePatch EXCEPT !.discount = Some(200)] }

RouteInvoiceBodies ==
  { [GoodBody EXCEPT !.companyProfileId = p, !.clientId = c]
      : p \in 1..MaxProfiles, c \in 1..MaxClients }

NextRoutes ==
  \/ \E u \in SessionUsers, body \in RouteInvoiceBodies : PostInvoice(u, body)
  \/ \E u \in SessionUsers, id \in 1..MaxInvoices, body \in RouteInvoicePatches : PutInvoice(u, id, body)
  \/ \E u \in SessionUsers, id \in 1..MaxInvoices : DeleteInvoiceRoute(u, id)
  \/ \E u \in SessionUsers, requested \in ProfileFlags : PostCompanyProfile(u, requested)
  \/ \E u \in SessionUsers, id \in 1..MaxProfiles, body \in ProfilePatches : PutCompanyProfile(u, id, body)
  \/ \E u \in SessionUsers, id \in 1..MaxProfiles : DeleteCompanyProfileRoute(u, id)
  \/ \E u \in SessionUsers : nextClientId <= MaxClients /\ PostClient(u)
  \/ \E u \in SessionUsers, id \in 1..MaxClients, owner \in Users :
       PutClient(u, id, [userId |-> Some(owner)])
  \/ \E u \in SessionUsers, id \in 1..MaxClients : DeleteClientRoute(u, id)

SpecRoutes == InitSetup /\ [][NextRoutes]_vars

(* ---- concurrent requests of user 1, whose subscription was just set   ---- *)
(* ---- to the per-invoice plan with a quota of ConcurrentQuota invoices  ---- *)
ConcurrentQuota == MaxRequests - 1

InitConcurrent ==
  /\ users = [u \in Users |->
                IF u = 1
                  THEN [NewUser EXCEPT !.planId = "per-invoice",
                                       !.invoiceQuota = ConcurrentQuota,
                                       !.subscriptionExpiresAt = Some(ThirtyDays)]
                  ELSE NewUser]
  /\ now = 0
  /\ companyProfiles = Insert(Insert(<<>>, 1, [userId |-> 1, isDefault |-> TRUE]),
                              2, [userId |-> 2, isDefault |-> TRUE])
  /\ nextProfileId = 3
  /\ clients = Insert(<<>>, 1, [userId |-> 1])
  /\ nextClientId = 2
  /\ invoices = <<>>
  /\ nextInvoiceId = 1
  /\ invoiceItems = <<>>
  /\ nextItemId = 1
  /\ lastOp = Done("updateUserSubscription", 1, Some(<<"per-invoice", ConcurrentQuota>>), Ok)
  /\ OtherStoresEmpty

NextConcurrent ==
  \/ \E r \in Requests, body \in {GoodBody, [GoodBody EXCEPT !.valid = FALSE]} :
       RequestCheckQuota(r, 1, body)
  \/ \E r \in Requests : RequestCreateInvoice(r)
  \/ \E r \in Requests : RequestReadUsage(r)
  \/ \E r \in Requests : RequestWriteUsage(r)

SpecConcurrent == InitConcurrent /\ [][NextConcurrent]_vars

(* ---- concurrent calls that make a profile the default ---- *)
NextDefaults ==
  \/ \E c \in Calls, u \in Users : CreateProfileRead(c, u, Some(TRUE))
  \/ \E c \in Calls : CreateProfileClear(c)
  \/ \E c \in Calls : CreateProfileInsert(c)
  \/ \E c \in Calls, id \in DOMAIN companyProfiles : UpdateProfileRead(c, id, TRUE)
  \/ \E c \in Calls : UpdateProfileClear(c)
  \/ \E c \in Calls : UpdateProfileSet(c)

SpecDefaults == InitSetup /\ [][NextDefaults]_vars

(* ---- deletes of a client or a profile against concurrent createInvoice ---- *)
InitDeletes ==
  /\ users = [u \in Users |-> NewUser]
  /\ now = 0
  /\ companyProfiles = Insert(Insert(<<>>, 1, [userId |-> 1, isDefault |-> TRUE]),
                              2, [userId |-> 1, isDefault |-> FALSE])
  /\ nextProfileId = 3
  /\ clients = Insert(<<>>, 1, [userId |-> 1])
  /\ nextClientId = 2
  /\ invoices = <<>>
  /\ nextInvoiceId = 1
  /\ invoiceItems = <<>>
  /\ nextItemId = 1
  /\ lastOp = Done("createClient", 1, None, Ok)
  /\ OtherStoresEmpty

DeleteRefs == {1, 2}

NextDeletes ==
  \/ \E c \in Calls : DeleteClientRead(c, 1)
  \/ \E c \in Calls : DeleteClientCheck(c)
  \/ \E c \in Calls : DeleteClientDelete(c)
  \/ \E c \in Calls, id \in DeleteRefs : DeleteProfileRead(c, id)
  \/ \E c \in Calls : DeleteProfileCheck(c)
  \/ \E c \in Calls : DeleteProfilePick(c)
  \/ \E c \in Calls : DeleteProfilePromote(c)
  \/ \E c \in Calls : DeleteProfileDelete(c)
  \/ \E c \in Calls, p \in DeleteRefs : CreateInvoiceCall(c, PlainInvoice(1, p, 1))

SpecDeletes == InitDeletes /\ [][NextDeletes]_vars

(* ---- concurrent item calls on two invoices ---- *)
NextItemCalls ==
  \/ \E c \in Calls, i \in DOMAIN invoices :
       CreateItemInsert(c, [invoiceId |-> i, quantity |-> 100, unitPrice |-> 500,
                            discount |-> None])
  \/ \E c \in Calls, id \in 1..MaxItems : UpdateItemRead(c, id, 200)
  \/ \E c \in Calls : UpdateItemWrite(c)
  \/ \E c \in Calls, id \in 1..MaxItems : DeleteItemRead(c, id)
  \/ \E c \in Calls : DeleteItemDelete(c)
  \/ \E c \in Calls : RecalculateReadInvoice(c)
  \/ \E c \in Calls : RecalculateReadItems(c)
  \/ \E c \in Calls : RecalculateWrite(c)

SpecItemCalls == InitItems /\ [][NextItemCalls]_vars

(* ---- material usage: tracked directly, by company items and by        ---- *)
(* ---- quotation items that come from a master item                      ---- *)
UsagePayloads ==
  { [userId |-> u, masterItemId |-> Some("MAT-001"), quotationId |-> q]
      : u \in Users, q \in {None, Some(1)} }

CompanyItemPayloads ==
  { [userId |-> u, valid |-> v, masterItemId |-> m]
      : u \in Users, v \in BOOLEAN, m \in {None, Some("MAT-001")} }

NextMaterials ==
  \/ \E usage \in UsagePayloads, fails \in BOOLEAN : TrackMaterialUsage(usage, fails)
  \/ \E item \in CompanyItemPayloads, usageFails \in BOOLEAN, insertFails \in BOOLEAN :
       CreateCompanyItem(item, usageFails, insertFails)
  \/ CreateQuotationItem([quotationId |-> 1, quantity |-> 100, unitPrice |-> 500,
                          discount |-> None, masterItemId |-> Some("MAT-001")])

SpecMaterials == InitQuotations /\ [][NextMaterials]_vars

(* ---- company terms and their categories ---- *)
Categories == {"payment", "delivery"}

TermPayloads ==
  [userId : Users, category : {None} \cup {Some(c) : c \in Categories},
   isDefault : ProfileFlags]

TermPatches ==
  [userId : {None} \cup {Some(u) : u \in Users},
   category : {None} \cup {Some(c) : c \in Categories},
   isDefault : ProfileFlags] \ {[userId |-> None, category |-> None, isDefault |-> None]}

NextTerms ==
  \/ \E term \in TermPayloads : CreateCompanyTerm(term)
  \/ \E id \in 1..MaxTerms, term \in TermPatches : UpdateCompanyTerm(id, term)
  \/ \E id \in 1..MaxTerms : DeleteCompanyTerm(id)

SpecTerms == InitSetup /\ [][NextTerms]_vars

(***************************************************************************)
(* Claims about company profiles and clients (SpecProfiles)                *)
(***************************************************************************)
OwnedBy(profiles, userId) ==
  {id \in DOMAIN profiles : profiles[id].userId = userId}

DefaultsOf(profiles, userId) ==
  {id \in DOMAIN profiles : profiles[id].userId = userId /\ profiles[id].isDefault}

(* C1: after any sequence of completed createCompanyProfile,               *)
(* updateCompanyProfile and deleteCompanyProfile calls, every user who     *)
(* owns at least one company profile has exactly one default profile.      *)
C1_ExactlyOneDefault ==
  \A u \in Users :
    OwnedBy(companyProfiles, u) # {} => Cardinality(DefaultsOf(companyProfiles, u)) = 1

(* C2: deleteCompanyProfile / deleteClient on a row that an invoice        *)
(* references fails with "Cannot delete ... that is used in invoices" and  *)
(* leaves the whole store unchanged.                                       *)
C2_ReferencedDeleteRejected ==
  [][ /\ \A id \in DOMAIN companyProfiles :
           ( /\ lastOp'.op = "deleteCompanyProfile"
             /\ lastOp'.id = id
             /\ \E i \in DOMAIN invoices : invoices[i].companyProfileId = id )
           => ( /\ lastOp'.error = "Cannot delete company profile that is used in invoices"
                /\ UNCHANGED store )
      /\ \A id \in DOMAIN clients :
           ( /\ lastOp'.op = "deleteClient"
             /\ lastOp'.id = id
             /\ \E i \in DOMAIN invoices : invoices[i].clientId = id )
           => ( /\ lastOp'.error = "Cannot delete client that is used in invoices"
                /\ UNCHANGED store ) ]_vars

C2_Witness ==
  /\ lastOp.op = "deleteCompanyProfile"
  /\ lastOp.error = ErrProfileInUse
  /\ lastOp.id \in DOMAIN companyProfiles
  /\ companyProfiles[lastOp.id].isDefault
  /\ \E i \in DOMAIN invoices : invoices[i].companyProfileId = lastOp.id

(* C9: createCompanyProfile stores isDefault = true whenever the user      *)
(* owned no profile before the call, whatever flag was requested;          *)
(* otherwise it stores the requested flag (false if absent) and, if that   *)
(* flag is true, every other profile of the user is non-default afterwards.*)
C9_CreateDefaultFlag ==
  [][ (lastOp'.op = "createCompanyProfile" /\ lastOp'.error = Ok) =>
        LET id == lastOp'.id
            u == companyProfiles'[id].userId
            requested == lastOp'.arg
        IN  /\ id \notin DOMAIN companyProfiles
            /\ OwnedBy(companyProfiles, u) = {} => companyProfiles'[id].isDefault = TRUE
            /\ OwnedBy(companyProfiles, u) # {} =>
                 /\ companyProfiles'[id].isDefault = (requested = {TRUE})
                 /\ requested = {TRUE} => DefaultsOf(companyProfiles', u) = {id} ]_vars

C9_Witness ==
  /\ lastOp.op = "createCompanyProfile"
  /\ lastOp.arg = {FALSE}
  /\ lastOp.id \in DOMAIN companyProfiles
  /\ companyProfiles[lastOp.id].isDefault
  /\ \E other \in DOMAIN companyProfiles :
       /\ other # lastOp.id
       /\ companyProfiles[other].userId # companyProfiles[lastOp.id].userId

(* C10: deleteCompanyProfile of an unreferenced default profile whose      *)
(* owner has other profiles removes it and leaves exactly one of the       *)
(* owner's remaining profiles default; deleting an unreferenced profile    *)
(* that is the owner's only profile succeeds and leaves the owner with     *)
(* zero profiles.                                                          *)
C10_DeletePromotesOne ==
  [][ \A id \in DOMAIN companyProfiles :
        ( /\ lastOp'.op = "deleteCompanyProfile"
          /\ lastOp'.id = id
          /\ ~ \E i \in DOMAIN invoices : invoices[i].companyProfileId = id )
        => LET u == companyProfiles[id].userId
               others == OwnedBy(companyProfiles, u) \ {id}
           IN  /\ lastOp'.error = Ok
               /\ id \notin DOMAIN companyProfiles'
               /\ (companyProfiles[id].isDefault /\ others # {}) =>
                    Cardinality(DefaultsOf(companyProfiles', u)) = 1
               /\ others = {} => OwnedBy(companyProfiles', u) = {} ]_vars

(***************************************************************************)
(* Claims about invoice items and stored totals (SpecItems, SpecInvoices)  *)
(***************************************************************************)
ItemOps == {"createInvoiceItem", "updateInvoiceItem", "deleteInvoiceItem"}

(* What the Total Calculator yields for invoice id from its current items, *)
(* discount and tax rate, each amount as its numeric(10,2) column holds it. *)
CalcSubtotal(invs, items, id) ==
  SumAmounts(items, {i \in DOMAIN items : items[i].invoiceId = id})

CalcTax(invs, items, id) ==
  RoundDiv((CalcSubtotal(invs, items, id) - Get(invs[id].discount, 0))
             * Get(invs[id].taxRate, 0), 10000)

CalcTotal(invs, items, id) ==
  (CalcSubtotal(invs, items, id) - Get(invs[id].discount, 0)) + CalcTax(invs, items, id)

TotalsMatch(invs, items, id) ==
  /\ invs[id].subtotal = CalcSubtotal(invs, items, id)
  /\ invs[id].tax = CalcTax(invs, items, id)
  /\ invs[id].total = CalcTotal(invs, items, id)

(* The invoices a step's item operation touched: the one the item belonged *)
(* to when the call started and the one every changed item belongs to now. *)
TouchedInvoices ==
  {lastOp'.id}
  \cup {invoiceItems'[i].invoiceId :
          i \in {j \in DOMAIN invoiceItems' :
                   j \notin DOMAIN invoiceItems \/ invoiceItems'[j] # invoiceItems[j]}}

(* C3: after every completed createInvoiceItem, updateInvoiceItem or       *)
(* deleteInvoiceItem on an existing invoice, the stored subtotal of the    *)
(* item's invoice is the sum of the stored amounts of its current items,   *)
(* its stored tax is (subtotal - discount) * taxRate / 100 and its stored  *)
(* total is (subtotal - discount) + tax (amounts to two decimals).         *)
C3_ItemOpsRecalculateInvoice ==
  [][(lastOp'.op \in ItemOps /\ lastOp'.error = Ok)
       => \A id \in TouchedInvoices \cap DOMAIN invoices' :
            TotalsMatch(invoices', invoiceItems', id)]_vars

(* C4: in every state the stored subtotal, tax and total of every invoice  *)
(* are what the Total Calculator computes from the invoice's current       *)
(* items, discount and tax rate.                                           *)
C4_StoredTotalsMatchCalculator ==
  \A id \in DOMAIN invoices : TotalsMatch(invoices, invoiceItems, id)

(* C5: no createInvoice or updateInvoice sets subtotal, tax or total:      *)
(* after createInvoice the three are 0 whatever the payload holds, and     *)
(* updateInvoice leaves them as the last recalculation wrote them.         *)
C5_CallersCannotSetTotals ==
  [][/\ (lastOp'.op = "createInvoice" /\ lastOp'.error = Ok)
          => /\ invoices'[lastOp'.id].subtotal = 0
             /\ invoices'[lastOp'.id].tax = 0
             /\ invoices'[lastOp'.id].total = 0
     /\ lastOp'.op = "updateInvoice"
          => \A id \in DOMAIN invoices :
               /\ invoices'[id].subtotal = invoices[id].subtotal
               /\ invoices'[id].tax = invoices[id].tax
               /\ invoices'[id].total = invoices[id].total]_vars

(***************************************************************************)
(* Claims about the quota and the usage counters (SpecQuota)               *)
(***************************************************************************)
QuotaDenials == {ErrBundleExpired, ErrQuotaReached}

Expired(user, t) ==
  /\ user.planId = "per-invoice"
  /\ \E expiresAt \in user.subscriptionExpiresAt : t > expiresAt

OverQuota(user) ==
  user.invoiceQuota # Unlimited /\ user.invoicesUsed >= user.invoiceQuota

(* The decision of the quota check of a POST /api/invoices step, taken on  *)
(* the user as the request found it.                                       *)
DecisionTable ==
  LET user == users[lastOp'.id]
  IN  /\ Expired(user, now) => lastOp'.error = ErrBundleExpired
      /\ (~Expired(user, now) /\ OverQuota(user)) => lastOp'.error = ErrQuotaReached
      /\ (~Expired(user, now) /\ ~OverQuota(user)) => lastOp'.error \notin QuotaDenials

(* C6 as stated: the quota check denies with the expiry reason when the    *)
(* plan is "per-invoice" and now > subscriptionExpiresAt, with the quota   *)
(* reason when invoiceQuota # -1 and invoicesUsed >= invoiceQuota, allows  *)
(* otherwise, and a user with invoiceQuota = -1 is allowed for every value *)
(* of invoicesUsed.                                                        *)
C6_UnlimitedAlwaysAllowed ==
  [][lastOp'.op = "postInvoice"
       => /\ DecisionTable
          /\ users[lastOp'.id].invoiceQuota = Unlimited
               => lastOp'.error \notin QuotaDenials]_vars

(* C6 as amended: the same decisions, and a user with invoiceQuota = -1 is *)
(* allowed for every value of invoicesUsed unless the expiry denial of the *)
(* "per-invoice" plan applies.                                             *)
C6_QuotaDecision ==
  [][lastOp'.op = "postInvoice"
       => /\ DecisionTable
          /\ (users[lastOp'.id].invoiceQuota = Unlimited
              /\ ~Expired(users[lastOp'.id], now))
               => lastOp'.error \notin QuotaDenials]_vars

(* An unlimited user who has already used an invoice passed the quota      *)
(* check: the request went on to fail the validation of its body.          *)
C6_Witness ==
  /\ lastOp.op = "postInvoice"
  /\ lastOp.error = ErrValidation
  /\ users[1].invoiceQuota = Unlimited
  /\ users[1].invoicesUsed >= 1

PostCountsUsage ==
  lastOp'.op = "postInvoice"
    => \A u \in Users :
         users'[u].invoicesUsed =
           IF u = lastOp'.id /\ DOMAIN invoices' # DOMAIN invoices
             THEN users[u].invoicesUsed + 1
             ELSE users[u].invoicesUsed

(* C7 as stated: through POST /api/invoices invoicesUsed grows by exactly  *)
(* 1 for each request that creates an invoice and is unchanged by every    *)
(* request that is rejected or fails; over any sequence of store           *)
(* operations invoicesUsed never decreases.                                *)
C7_UsageNeverDecreases ==
  [][/\ PostCountsUsage
     /\ \A u \in Users : users'[u].invoicesUsed >= users[u].invoicesUsed]_vars

(* C7 as amended: the same through POST /api/invoices; over any sequence   *)
(* of store operations invoicesUsed never decreases except that            *)
(* updateUserSubscription resets it to 0.                                  *)
C7_UsageCountsCreations ==
  [][/\ PostCountsUsage
     /\ \A u \in Users :
          IF lastOp'.op = "updateUserSubscription" /\ lastOp'.id = u
            THEN users'[u].invoicesUsed = 0
            ELSE users'[u].invoicesUsed >= users[u].invoicesUsed]_vars

(* A POST created an invoice and the user's count stands at one.           *)
C7_Witness ==
  /\ lastOp.op = "postInvoice"
  /\ lastOp.arg = Some(201)
  /\ DOMAIN invoices # {}
  /\ users[1].invoicesUsed = 1

TermsOf(userId, category) ==
  {id \in DOMAIN companyTerms :
     companyTerms[id].userId = userId /\ companyTerms[id].category = category}

DefaultTermsOf(userId, category) ==
  {id \in TermsOf(userId, category) : companyTerms[id].isDefault}

(* C11: after any sequence of createCompanyTerm, updateCompanyTerm (any    *)
(* patch, also one that changes category or userId) and deleteCompanyTerm, *)
(* every (userId, category) has at most one default company term.         *)
C11_AtMostOneDefaultTerm ==
  \A u \in Users, c \in Categories : Cardinality(DefaultTermsOf(u, c)) <= 1

(* C12: company terms follow the default state machine of company          *)
(* profiles per (userId, category): the first term of a (user, category)   *)
(* is stored as default whatever flag was requested and deleting the       *)
(* default promotes another, so every (user, category) that holds a term   *)
(* has exactly one default term after each completed operation.            *)
C12_TermDefaultStateMachine ==
  \A u \in Users, c \in Categories :
    TermsOf(u, c) # {} => Cardinality(DefaultTermsOf(u, c)) = 1

(***************************************************************************)
(* Further claims about invoice items (SpecItems)                          *)
(***************************************************************************)
(* quantity * unitPrice * (1 - discount/100), half-up to two decimals.     *)
HalfUpAmount(quantity, unitPrice, discount) ==
  (quantity * unitPrice * (10000 - discount) + 500000) \div 1000000

C14_RecalculationUsesDefaultTaxRate ==
  [][(lastOp'.op \in ItemOps /\ lastOp'.error = Ok /\ lastOp'.id \in DOMAIN invoices')
       => LET invoice == invoices'[lastOp'.id]
              rate == Get(GetDefaultTaxRate(taxRates', invoice.country), 0)
              taxable == invoice.subtotal - Get(invoice.discount, 0)
          IN  /\ invoice.taxRate = Some(rate)
              /\ invoice.subtotal = CalcSubtotal(invoices', invoiceItems', lastOp'.id)
              /\ invoice.tax = RoundDiv(taxable * rate, 10000)
              /\ invoice.total = taxable + invoice.tax]_vars

(* C15: when an invoice has no items, for example after deleteInvoiceItem  *)
(* removed its last one, the recalculation stores subtotal = 0, tax = 0    *)
(* and total = 0 and raises no error, whatever the invoice's discount and  *)
(* tax rate.                                                               *)
C15_NoItemsZeroTotals ==
  [][(lastOp'.op \in ItemOps /\ lastOp'.id \in DOMAIN invoices'
      /\ GetInvoiceItems(invoiceItems', lastOp'.id) = {}
      /\ GetInvoiceItems(invoiceItems, lastOp'.id) # {})
       => /\ lastOp'.error = Ok
          /\ invoices'[lastOp'.id].subtotal = 0
          /\ invoices'[lastOp'.id].tax = 0
          /\ invoices'[lastOp'.id].total = 0]_vars

(* C16: every recalculation of a quotation leaves                         *)
(* tax = (subtotal - discount) * taxRate / 100 and                        *)
(* total = (subtotal - discount) + tax, the discount read as an amount.   *)
QuotationItemOps == {"updateQuotationItem", "deleteQuotationItem"}

AbsoluteDiscountTotals(quotation) ==
  LET discountedSubtotal == quotation.subtotal - Get(quotation.discount, 0)
      tax == RoundDiv(discountedSubtotal * Get(quotation.taxRate, 0), 10000)
  IN  /\ quotation.tax = tax
      /\ quotation.total = RoundDiv(discountedSubtotal * (10000 + Get(quotation.taxRate, 0)),
                                    10000)

C16_QuotationDiscountIsAbsolute ==
  [][(lastOp'.op \in QuotationItemOps /\ lastOp'.error = Ok
        /\ lastOp'.id \in DOMAIN quotations')
       => AbsoluteDiscountTotals(quotations'[lastOp'.id])]_vars

(* C17: a successful deleteInvoice(id) leaves no invoice item of that      *)
(* invoice, deleteQuotation(id) leaves no item, term or document of that  *)
(* quotation, and the rows of every other invoice or quotation stay as    *)
(* they were.                                                              *)
NoneOwned(rows, owner, id) == \A i \in DOMAIN rows : rows[i][owner] # id

OthersKept(before, after, owner, id) ==
  \A i \in DOMAIN before :
    before[i][owner] # id => (i \in DOMAIN after /\ after[i] = before[i])

C17_DeleteCascades ==
  [][/\ (lastOp'.op = "deleteInvoice" /\ lastOp'.error = Ok)
          => /\ NoneOwned(invoiceItems', "invoiceId", lastOp'.id)
             /\ OthersKept(invoiceItems, invoiceItems', "invoiceId", lastOp'.id)
     /\ lastOp'.op = "deleteQuotation"
          => /\ NoneOwned(quotationItems', "quotationId", lastOp'.id)
             /\ NoneOwned(quotationTerms', "quotationId", lastOp'.id)
             /\ NoneOwned(quotationDocuments', "quotationId", lastOp'.id)
             /\ OthersKept(quotationItems, quotationItems', "quotationId", lastOp'.id)
             /\ OthersKept(quotationTerms, quotationTerms', "quotationId", lastOp'.id)
             /\ OthersKept(quotationDocuments, quotationDocuments',
                           "quotationId", lastOp'.id)]_vars

(* Invoice 1 went with the one item it had while the item of invoice 2    *)
(* stayed, and quotation 1 went with its item, term and document while    *)
(* the item of quotation 2 stayed.                                         *)
C17_Witness ==
  /\ lastOp.op = "deleteQuotation"
  /\ lastOp.id = 1
  /\ DOMAIN quotationItems = {2}
  /\ nextQuotationTermId > 1
  /\ quotationTerms = <<>>
  /\ nextQuotationDocumentId > 1
  /\ quotationDocuments = <<>>
  /\ DOMAIN invoices = {2}
  /\ nextItemId = 3
  /\ Cardinality(DOMAIN invoiceItems) = 1
  /\ \A i \in DOMAIN invoiceItems : invoiceItems[i].invoiceId = 2

(* C18: after seedDefaultData every default plan, tax rate and template   *)
(* is in its table exactly once, after seedQuotationData every default    *)
(* master term and master item is, whatever was there before, and a run   *)
(* that finds them all changes nothing.                                    *)
TaxRowsFor(rates, countryCode) ==
  {id \in DOMAIN rates : rates[id].countryCode = countryCode}

DefaultDataPresent ==
  /\ DefaultPlans \subseteq subscriptionPlans
  /\ \A d \in DOMAIN DefaultTaxRates :
       Cardinality(TaxRowsFor(taxRates, DefaultTaxRates[d].countryCode)) = 1
  /\ DefaultTemplates \subseteq invoiceTemplates

QuotationDataPresent ==
  /\ DefaultMasterTerms \subseteq masterTerms
  /\ DefaultMasterItems \subseteq masterItems

C18_SeedingInsertsIfAbsent ==
  [][/\ lastOp'.op = "seedDefaultData"
          => /\ DefaultDataPresent'
             /\ DefaultDataPresent => UNCHANGED seedVars
     /\ lastOp'.op = "seedQuotationData"
          => /\ QuotationDataPresent'
             /\ QuotationDataPresent => UNCHANGED seedVars]_vars

(* C19: an item discount below 0 or above 100 percent is rejected before  *)
(* any row is written, so no stored invoice item carries one.             *)
C19_ItemDiscountInRange ==
  \A i \in DOMAIN invoiceItems :
    /\ Get(invoiceItems[i].discount, 0) >= 0
    /\ Get(invoiceItems[i].discount, 0) <= 10000

(* C20: however concurrent POST /api/invoices requests of one user with a *)
(* finite quota interleave, the invoices created since the user's last    *)
(* updateUserSubscription never outnumber invoiceQuota.                    *)
C20_QuotaHoldsUnderConcurrency ==
  \A u \in Users :
    users[u].invoiceQuota # Unlimited
      => Cardinality({i \in DOMAIN invoices : invoices[i].userId = u})
           <= users[u].invoiceQuota

(* C21: when no incrementInvoiceUsage call is between its read and its    *)
(* write, invoicesUsed has grown by one for every call that completed: no *)
(* increment is lost, however the calls interleave.                        *)
IncrementsCompleted(u) ==
  Cardinality({r \in Requests : requests[r].pc = "done" /\ requests[r].userId = u})

IncrementsInFlight(u) ==
  {r \in Requests : requests[r].pc = "read" /\ requests[r].userId = u}

C21_NoIncrementLost ==
  \A u \in Users :
    IncrementsInFlight(u) = {} => users[u].invoicesUsed = IncrementsCompleted(u)

(* C22: once every createCompanyProfile and updateCompanyProfile call     *)
(* that asked for isDefault = true has completed, no user has two default *)
(* profiles, however the calls interleaved.                                *)
DefaultProfilesOf(u) ==
  {id \in DOMAIN companyProfiles :
     companyProfiles[id].userId = u /\ companyProfiles[id].isDefault}

C22_OneDefaultAfterConcurrentCalls ==
  CallsAtRest => \A u \in Users : Cardinality(DefaultProfilesOf(u)) <= 1

(* C23: however deleteClient, deleteCompanyProfile and createInvoice      *)
(* calls interleave, every stored invoice references a client row and a   *)
(* company profile row that are still there.                               *)
C23_NoDanglingReference ==
  \A i \in DOMAIN invoices :
    /\ invoices[i].clientId \in DOMAIN clients
    /\ invoices[i].companyProfileId \in DOMAIN companyProfiles

(* A deleteClient passed its in-use check, an invoice for the client was   *)
(* inserted, and the DELETE was then refused.                              *)
C23_Witness ==
  /\ lastOp.op = "deleteClient.delete"
  /\ lastOp.error = ErrForeignKey
  /\ \E i \in DOMAIN invoices : invoices[i].clientId = calls[lastOp.id].id
  /\ calls[lastOp.id].id \in DOMAIN clients

(* C24: once every concurrent item call has completed, each invoice's     *)
(* stored subtotal is the sum of the amounts of the items stored for it.  *)
C24_SubtotalAfterConcurrentCalls ==
  CallsAtRest =>
    \A i \in DOMAIN invoices :
      invoices[i].subtotal = SumAmounts(invoiceItems, GetInvoiceItems(invoiceItems, i))

(* C25: a trackMaterialUsage, createCompanyItem or createQuotationItem    *)
(* that fails leaves every materialRecordsUsed as it was, and a           *)
(* trackMaterialUsage that succeeds raises the user's counter by one and  *)
(* appends one MaterialUsage row.                                          *)
MaterialOps == {"trackMaterialUsage", "createCompanyItem", "createQuotationItem"}

C26_FailedItemIsRolledBack ==
  [][(/\ memIds'.item = memIds.item + 1
      /\ memCall'.a \notin DOMAIN memInvoices)
       => (memError' # Ok /\ memInvoiceItems' = memInvoiceItems)]_vars

(* C27: a createQuotationItem for an existing quotation completes without  *)
(* error and stores exactly one new item whose amount is                   *)
(* quantity * unitPrice * (1 - discount / 100); after it, and after a      *)
(* successful updateQuotationItem or deleteQuotationItem, the subtotal of  *)
(* the quotation is the sum of the amounts of its items.                   *)
QuotationSubtotalIsSum(quots, items, id) ==
  quots[id].subtotal = SumAmounts(items, GetQuotationItems(items, id))

C27_QuotationItemStored ==
  [][/\ (lastOp'.op = "createQuotationItem" /\ lastOp'.id \in DOMAIN quotations)
          => /\ lastOp'.error = Ok
             /\ \E id \in DOMAIN quotationItems' \ DOMAIN quotationItems :
                  /\ DOMAIN quotationItems' = DOMAIN quotationItems \cup {id}
                  /\ quotationItems'[id].quotationId = lastOp'.id
                  /\ quotationItems'[id].amount =
                       ItemAmount(quotationItems'[id].quantity, quotationItems'[id].unitPrice,
                                  Get(quotationItems'[id].discount, 0))
             /\ QuotationSubtotalIsSum(quotations', quotationItems', lastOp'.id)
     /\ (lastOp'.op \in QuotationItemOps /\ lastOp'.error = Ok
           /\ lastOp'.id \in DOMAIN quotations')
          => QuotationSubtotalIsSum(quotations', quotationItems', lastOp'.id)]_vars

(* C28: through PUT and DELETE /api/invoices/:invoiceId/items/:itemId a    *)
(* user changes or deletes only items whose parent invoice that user owns, *)
(* and only totals of invoices that user owns are recalculated: the items  *)
(* and invoices of every other user stay as they were.                     *)
OwnerOfItem(i) ==
  IF invoiceItems[i].invoiceId \in DOMAIN invoices
    THEN invoices[invoiceItems[i].invoiceId].userId
    ELSE 0

C28_ItemsOfOthersUntouched ==
  [][/\ \A i \in DOMAIN invoiceItems :
          OwnerOfItem(i) \notin SessionUsers
            => (i \in DOMAIN invoiceItems' /\ invoiceItems'[i] = invoiceItems[i])
     /\ \A v \in DOMAIN invoices :
          invoices[v].userId \notin SessionUsers
            => (v \in DOMAIN invoices' /\ invoices'[v] = invoices[v])]_vars

(* C29: through the routes of invoices, clients and company profiles, run  *)
(* one at a time, the companyProfileId and clientId of every stored        *)
(* invoice name an existing company profile and an existing client owned   *)
(* by the user of the invoice.                                             *)
C29_InvoiceReferencesOwned ==
  \A i \in DOMAIN invoices :
    /\ invoices[i].companyProfileId \in DOMAIN companyProfiles
    /\ companyProfiles[invoices[i].companyProfileId].userId = invoices[i].userId
    /\ invoices[i].clientId \in DOMAIN clients
    /\ clients[invoices[i].clientId].userId = invoices[i].userId

(* C30: served the same sequence of createCompanyProfile,                  *)
(* updateCompanyProfile, deleteCompanyProfile, createClient, deleteClient  *)
(* and createInvoice calls, the in-memory store and the relational store   *)
(* fail on the same calls and hold the same company profiles, with the     *)
(* same isDefault flags, and the same clients.                             *)
C30_StoresEquivalent ==
  BothServed =>
    /\ (lastOp.error = Ok) <=> (memError = Ok)
    /\ companyProfiles = memCompanyProfiles
    /\ clients = memClients

====
